---- MODULE Spec2Model ----
(***************************************************************************)
(* Turn-orchestration core of the social-deduction engines, and the        *)
(* experiment runner of perform_experiments.py.                            *)
(*                                                                         *)
(*   engine = "sdg"  : sdg_core.py, the bid / speak / system-update loop   *)
(*                     of main_async.                                      *)
(*   engine = "flex" : flex_social_deduction.py, the phase engine of main. *)
(*                                                                         *)
(* Spec runs one of the two programs (chosen in Init).  SpecVictory        *)
(* (engine = "victory") applies check_victory to inputs drawn from bounded *)
(* sets.  SpecExperiment (engine = "experiment") applies run_experiment to *)
(* arguments, folders and experiment processes drawn from bounded sets.    *)
(*                                                                         *)
(* Encodings.  A bid is an integer number of tenths (10 is 1.0).  The "to" *)
(* string of a decision is the sequence of its comma-separated fields.  A  *)
(* memory entry is <<turn, sender, recipients, text>>.  Python's None is   *)
(* the string "None".  Records of the event log keep the fields phase,     *)
(* turn, agent / speaker, to, is_dm, msg and winner.                       *)
(***************************************************************************)
EXTENDS Integers, Sequences, FiniteSets, TLC

VARIABLES
    engine,         \* which program runs: "sdg", "flex" or "victory"
    pc,             \* position of the main coroutine / main function
    \* ---- sdg_core.py, main_async ----
    turn,           \* turn
    winner,         \* winner
    meta_pub,       \* meta_pub
    meta_priv,      \* meta_priv
    mem_log,        \* Agent.mem_log of every agent and of the GameSystem
    pending,        \* decide_async tasks created and not yet returned
    pkgs,           \* results of the decide_async tasks of this round
    requests,       \* input of the oracle calls of this round, by callee
    speaker,        \* speaker of the last selection ("None" before the first)
    rng,            \* state of the generator behind random.choice
    public_log,     \* public_log
    dm_log,         \* dm_log
    full_json_log,  \* full_json_log
    log_file,       \* content of the file at log_path
    \* ---- flex_social_deduction.py, main ----
    victory,        \* spec["victory"]: <<team, rule>> in declaration order
    state,          \* state: messages, turn, alive, meta
    phase,          \* phase, the tag _ph_gm returned
    win,            \* win, the result of check_victory
    \* ---- perform_experiments.py, run_experiment ----
    call,           \* the arguments of the call: run_num, timeout, use_docker
    fs,             \* the experiment folder and the docker executable
    proc,           \* what the experiment process did ("none" before it ran)
    ret,            \* what the call returned or raised
    \* ---- sdg_core.py, Agent.decide_async applied to one oracle answer ----
    answer,         \* what main_chain.ainvoke did
    response,       \* the dict decide_async returned
    \* ---- perform_experiments.py, perform_experiments ----
    run,            \* run
    current_iter,   \* current_iter
    next_prompt,    \* next_prompt, as far as run_experiment sets it
    attempts,       \* run_experiment calls made so far, by run number
    result          \* the value returned ("None" before the return)

sdgVars == <<turn, winner, meta_pub, meta_priv, mem_log, pending, pkgs, requests,
             speaker, rng, public_log, dm_log, full_json_log, log_file>>

flexVars == <<victory, state, phase, win>>

expVars == <<call, fs, proc, ret>>

decVars == <<answer, response>>

perfVars == <<run, current_iter, next_prompt, attempts, result>>

vars == <<engine, pc, sdgVars, flexVars, expVars, decVars, perfVars>>

----------------------------------------------------------------------------
(* Bounds *)

MaxTurn == 2        \* sdg_core: rounds explored
TurnLimit == 2      \* flex: meta.turn_limit of the game spec explored

----------------------------------------------------------------------------
(* Helpers *)

Range(s) == {s[i] : i \in 1..Len(s)}

Max(S) == CHOOSE x \in S : \A y \in S : y <= x

\* dict.get(key, default) on a record
Get(d, k, default) == IF k \in DOMAIN d THEN d[k] ELSE default

\* an update that keeps the old value of a key that is already there
DictUpdateKeepsOld(d, u) == d @@ u

\* dict.update(u): the keys of u overwrite, the other keys stay
DictUpdate(d, u) == u @@ d

None == "None"

\* the dict {}
EmptyDict == [k \in {} |-> None]

----------------------------------------------------------------------------
(* flex_social_deduction.py: what eval() does with a victory expression    *)
(*                                                                         *)
(* An expression is its sequence of lexical tokens [k, s, v]: a number     *)
(* (k = "num", value v), an identifier (k = "name", text s), an operator   *)
(* or parenthesis (k = "op", text s), or any other character (k = "junk"). *)
(* A value is [k, n, d, s]: the number n/d (True is 1, False is 0; "/" is  *)
(* Python's true division), a function or type object s, None, or the way  *)
(* the evaluation ended: "syntax" (SyntaxError, nothing was evaluated),    *)
(* "err" (an Exception raised while evaluating), "exit" (SystemExit, which *)
(* is no Exception).                                                       *)

N(v) == [k |-> "num", s |-> "", v |-> v]
W(s) == [k |-> "name", s |-> s, v |-> 0]
O(s) == [k |-> "op", s |-> s, v |-> 0]
J(s) == [k |-> "junk", s |-> s, v |-> 0]

Num(n, d) == [k |-> "num", n |-> n, d |-> d, s |-> ""]
Obj(s) == [k |-> "obj", n |-> 0, d |-> 1, s |-> s]
NoneVal == [k |-> "none", n |-> 0, d |-> 1, s |-> ""]
Raised(kind) == [k |-> kind, n |-> 0, d |-> 1, s |-> ""]

IsFail(v) == v.k \in {"syntax", "err", "exit"}

\* the names eval() resolves without a counter: Python builtins
BuiltinObjects == {"abs", "len", "int", "exit"}

Lookup(s) ==
    CASE s \in BuiltinObjects -> Obj(s)
      [] s = "True"  -> Num(1, 1)
      [] s = "False" -> Num(0, 1)
      [] s = "None"  -> NoneVal
      [] OTHER       -> Raised("err")          \* NameError

Abs(n) == IF n < 0 THEN -n ELSE n

\* a call f() (args = <<>>) or f(x) (args = <<x>>) of a name
Call(s, args) ==
    IF Lookup(s).k = "err" THEN Raised("err")             \* NameError
    ELSE IF args # <<>> /\ IsFail(args[1]) THEN args[1]
    ELSE IF s = "exit" THEN Raised("exit")                \* SystemExit
    ELSE IF s = "abs" /\ args # <<>> /\ args[1].k = "num"
         THEN Num(Abs(args[1].n), args[1].d)
    ELSE IF s = "int" /\ args = <<>> THEN Num(0, 1)
    ELSE Raised("err")                                    \* TypeError

CmpOps == {"==", "!=", "<", "<=", ">", ">="}

Bool(b) == IF b THEN Num(1, 1) ELSE Num(0, 1)

\* l op r on two values that are no failures
Compute(op, l, r) ==
    IF op \in {"==", "!="}
    THEN LET eq == IF l.k = "num" /\ r.k = "num" THEN l.n * r.d = r.n * l.d
                   ELSE l.k = r.k /\ l.s = r.s
         IN  Bool(IF op = "==" THEN eq ELSE ~eq)
    ELSE IF l.k # "num" \/ r.k # "num" THEN Raised("err")  \* TypeError
    ELSE CASE op = "<"  -> Bool(l.n * r.d < r.n * l.d)
           [] op = "<=" -> Bool(l.n * r.d <= r.n * l.d)
           [] op = ">"  -> Bool(l.n * r.d > r.n * l.d)
           [] op = ">=" -> Bool(l.n * r.d >= r.n * l.d)
           [] op = "+"  -> Num(l.n * r.d + r.n * l.d, l.d * r.d)
           [] op = "-"  -> Num(l.n * r.d - r.n * l.d, l.d * r.d)
           [] op = "*"  -> Num(l.n * r.n, l.d * r.d)
           [] op = "/"  -> IF r.n = 0 THEN Raised("err")  \* ZeroDivisionError
                           ELSE IF r.n < 0 THEN Num(-(l.n * r.d), l.d * (-r.n))
                           ELSE Num(l.n * r.d, l.d * r.n)
           [] OTHER     -> Raised("syntax")

\* l op r, where the left operand is evaluated first
Binary(op, l, r) ==
    IF l.k = "syntax" \/ r.k = "syntax" THEN Raised("syntax")
    ELSE IF IsFail(l) THEN l
    ELSE IF IsFail(r) THEN r
    ELSE Compute(op, l, r)

Tok(ts, p) == IF p <= Len(ts) THEN ts[p] ELSE [k |-> "eof", s |-> "", v |-> 0]

IsOp(t, S) == t.k = "op" /\ t.s \in S

\* the grammar levels, loosest first, and the operators of each
CmpLevel == "comparison"
ArithLevel == "arith"
TermLevel == "term"
FactorLevel == "factor"

LevelOps(lv) ==
    CASE lv = CmpLevel   -> CmpOps
      [] lv = ArithLevel -> {"+", "-"}
      [] lv = TermLevel  -> {"*", "/"}
      [] OTHER           -> {}

Tighter(lv) ==
    CASE lv = CmpLevel   -> ArithLevel
      [] lv = ArithLevel -> TermLevel
      [] OTHER           -> FactorLevel

\* one more link of a comparison chain a op b op c ...: the chain is true
\* when every link is true; operands after a false link are not evaluated
ChainLink(op, acc, last, b) ==
    IF b.k = "syntax" \/ acc.k = "syntax" THEN Raised("syntax")
    ELSE IF acc.k = "start" THEN Binary(op, last, b)
    ELSE IF IsFail(acc) \/ acc.n = 0 THEN acc
    ELSE Binary(op, last, b)

RECURSIVE Parse(_, _, _, _, _)
\* Parse(ts, p, lv, acc, last): with acc.k = "open", parse one operand of
\* level lv at position p; otherwise continue the operator sequence of
\* level lv whose value so far is acc and whose last operand is last.
\*   factor: ("-" | "+") factor | number | name | name() | name(expr) | (expr)
Parse(ts, p, lv, acc, last) ==
    LET t == Tok(ts, p) IN
    IF acc.k # "open"
    THEN IF IsOp(t, LevelOps(lv))
         THEN LET b == Parse(ts, p + 1, Tighter(lv), Raised("open"), Raised("open"))
                  next == IF lv = CmpLevel THEN ChainLink(t.s, acc, last, b.v)
                          ELSE Binary(t.s, acc, b.v)
              IN  Parse(ts, b.p, lv, next, b.v)
         ELSE [v |-> IF acc.k = "start" THEN last ELSE acc, p |-> p]
    ELSE IF lv # FactorLevel
    THEN LET a == Parse(ts, p, Tighter(lv), Raised("open"), Raised("open")) IN
         Parse(ts, a.p, lv, IF lv = CmpLevel THEN Raised("start") ELSE a.v, a.v)
    ELSE CASE IsOp(t, {"-", "+"}) ->
                LET f == Parse(ts, p + 1, FactorLevel, Raised("open"), Raised("open")) IN
                [v |-> Binary(t.s, Num(0, 1), f.v), p |-> f.p]
           [] t.k = "num" -> [v |-> Num(t.v, 1), p |-> p + 1]
           [] t.k = "name" /\ ~IsOp(Tok(ts, p + 1), {"("}) ->
                [v |-> Lookup(t.s), p |-> p + 1]
           [] t.k = "name" /\ IsOp(Tok(ts, p + 2), {")"}) ->
                [v |-> Call(t.s, <<>>), p |-> p + 3]
           [] t.k = "name" \/ IsOp(t, {"("}) ->
                LET q == IF t.k = "name" THEN p + 2 ELSE p + 1
                    e == Parse(ts, q, CmpLevel, Raised("open"), Raised("open"))
                IN  IF e.v.k # "syntax" /\ IsOp(Tok(ts, e.p), {")"})
                    THEN [v |-> IF t.k = "name" THEN Call(t.s, <<e.v>>) ELSE e.v,
                          p |-> e.p + 1]
                    ELSE [v |-> Raised("syntax"), p |-> e.p]
           [] OTHER -> [v |-> Raised("syntax"), p |-> p + 1]

ParseExpr(ts, p) == Parse(ts, p, CmpLevel, Raised("open"), Raised("open"))

\* eval(expr): the value, or how the evaluation ended
Eval(ts) ==
    LET r == ParseExpr(ts, 1) IN
    IF r.v.k = "syntax" \/ r.p # Len(ts) + 1 THEN Raised("syntax") ELSE r.v

\* truth value of a value in "if eval(expr)"
Truth(v) == (v.k = "num" /\ v.n # 0) \/ v.k = "obj"

----------------------------------------------------------------------------
(* flex_social_deduction.py: check_victory *)

\* str(v) of an integer, as tokens
StrTokens(v) == IF v < 0 THEN <<O("-"), N(-v)>> ELSE <<N(v)>>

\* the identifiers of the expressions explored that hold a shorter
\* identifier as a proper part: <<the part, the characters behind it>>
Compound ==
    ("Towns" :> <<"Town", "s">>) @@ ("Town0" :> <<"Town", "0">>)
       @@ ("Town_x" :> <<"Town", "_x">>)

\* re.sub(k, str(v), s) on an identifier s, for every counter k: a pattern
\* without word boundaries also matches the part of a compound identifier
SubAnywhere(s, counts) ==
    IF s \in DOMAIN counts THEN StrTokens(counts[s])
    ELSE IF s \in DOMAIN Compound /\ Compound[s][1] \in DOMAIN counts
    THEN IF Compound[s][2] = "0" THEN StrTokens(counts[Compound[s][1]] * 10)
         ELSE StrTokens(counts[Compound[s][1]]) \o <<W(Compound[s][2])>>
    ELSE <<W(s)>>

\* line 319, re.sub(fr"\b{k}\b", str(v), expr), on an identifier s of the
\* expression, for every counter k: inside an identifier there is no word
\* boundary, so s is replaced when it is a counter name and kept otherwise
SubWord(s, counts) ==
    IF s \in DOMAIN counts THEN StrTokens(counts[s]) ELSE <<W(s)>>

\* lines 318-319: every whole-word occurrence of a counter name becomes the
\* text of its value
RECURSIVE Substitute(_, _)
Substitute(ts, counts) ==
    IF ts = <<>> THEN <<>>
    ELSE (IF Head(ts).k = "name" THEN SubWord(Head(ts).s, counts) ELSE <<Head(ts)>>)
         \o Substitute(Tail(ts), counts)

\* an identifier without its underscores, which line 320 deletes
StripUnderscore(s) ==
    CASE s = "Town_x"     -> "Townx"
      [] s = "turn_limit" -> "turnlimit"
      [] OTHER            -> s

\* line 320: every character outside [0-9A-Za-z><=+\-*/ ()] is deleted
RECURSIVE Sanitize(_)
Sanitize(ts) ==
    IF ts = <<>> THEN <<>>
    ELSE (CASE Head(ts).k = "junk"                      -> <<>>
            [] Head(ts).k = "op" /\ Head(ts).s = "!="  -> <<O("=")>>
            [] Head(ts).k = "name" -> <<W(StripUnderscore(Head(ts).s))>>
            [] OTHER                                     -> <<Head(ts)>>)
         \o Sanitize(Tail(ts))

\* lines 312-315: living participants per team, then the meta entries
Counts(alive, teams, meta) ==
    LET living == {teams[alive[i]] : i \in 1..Len(alive)}
        byTeam == [tm \in living |->
                     Cardinality({i \in 1..Len(alive) : teams[alive[i]] = tm})]
    IN  DictUpdate(byTeam, meta)

\* lines 316-326: victory is the sequence of <<team, rule>> in declaration
\* order.  The result is the team, None, or "SystemExit" when eval leaves
\* by an exception that "except Exception" does not catch.
RECURSIVE VictoryLoop(_, _)
VictoryLoop(rules, counts) ==
    IF rules = <<>> THEN None
    ELSE LET v == Eval(Sanitize(Substitute(Head(rules)[2], counts))) IN
         IF v.k = "exit" THEN "SystemExit"
         ELSE IF ~IsFail(v) /\ Truth(v) THEN Head(rules)[1]
         ELSE VictoryLoop(Tail(rules), counts)

check_victory(alive, teams, meta, rules) ==
    VictoryLoop(rules, Counts(alive, teams, meta))

----------------------------------------------------------------------------
(* sdg_core.py: participants *)

\* names = [f"P{i+1}" for i in range(args.players)], a game of two players
names == <<"P1", "P2">>

\* keys of the agents dict in insertion order: the players, then the GM
agents == names \o <<"GM">>

AgentNames == Range(agents)

\* every holder of a mem_log: the agents dict and game_system
MemOwners == AgentNames \cup {"SYSTEM"}

\* a message text taken as it is, without str.strip()
unstripped(m) == m

\* str.strip() on the message texts the oracle produces
strip(m) ==
    CASE m = " "    -> ""
      [] m = " hi " -> "hi"
      [] OTHER      -> m

\* AgentResponse: bid: float = Field(ge=0.0, le=1.0), in tenths
BidLow == 0
BidHigh == 10

DefaultResponse ==
    [bid |-> 0, msg |-> "", to |-> <<"ALL">>, reason |-> "Error in response generation"]

Json(b, m, t) == [kind |-> "json", bid |-> b, msg |-> m, to |-> t, reason |-> "r"]

\* What main_chain.ainvoke can do: raise, return text the JSON parser
\* rejects, or return a JSON object with the fields bid, msg, to, reason.
OracleAnswers ==
    { [kind |-> "raise"], [kind |-> "text"],
      Json(15, "hi", <<"ALL">>),
      Json(-5, "hi", <<"P1">>),
      Json(10, " hi ", <<"P1">>),
      Json(10, "hi", names),
      Json(5, "hi", <<"GM", "Px">>),
      Json(5, " ", <<"ALL">>) }

\* decide_async with a fallback that bids the maximum
decide_async_fallback_bids_high(js) ==
    IF js.kind = "json" /\ js.bid >= BidLow /\ js.bid <= BidHigh
    THEN [bid |-> js.bid, msg |-> js.msg, to |-> js.to, reason |-> js.reason]
    ELSE [DefaultResponse EXCEPT !.bid = BidHigh]

\* the bound of [0, 1] nearest to the bid
Clamp(b) == IF b < BidLow THEN BidLow ELSE IF b > BidHigh THEN BidHigh ELSE b

\* decide_async with a validator that clamps the bid
decide_async_clamps_bid(js) ==
    IF js.kind = "json"
    THEN [bid |-> Clamp(js.bid), msg |-> js.msg, to |-> js.to, reason |-> js.reason]
    ELSE DefaultResponse

\* Agent.decide_async: the value returned for one oracle answer
decide_async(js) ==
    IF js.kind = "json" /\ js.bid >= BidLow /\ js.bid <= BidHigh
    THEN [bid |-> js.bid, msg |-> js.msg, to |-> js.to, reason |-> js.reason]
    ELSE DefaultResponse

\* the decision variables before decide_async is called
NoAnswer == [kind |-> "none"]

NoResponse == [bid |-> 0, msg |-> "", to |-> <<>>, reason |-> "not called"]

\* the decision variables while another program runs
DecIdle == answer = NoAnswer /\ response = NoResponse

----------------------------------------------------------------------------
(* sdg_core.py: main_async *)

\* rules.init_meta_pub(names)
init_meta_pub == [phase |-> "discussion", alive |-> names, dead |-> <<>>]

\* rules.init_meta_priv(names): one werewolf, shuffled over the players
init_meta_priv(wolf) ==
    [roles |-> [n \in Range(names) |-> IF n = wolf THEN "WEREWOLF" ELSE "VILLAGER"]]

\* mem_log[-30:]
HistoryWindow == 30

history(mem) ==
    SubSeq(mem, IF Len(mem) > HistoryWindow THEN Len(mem) - HistoryWindow + 1 ELSE 1,
           Len(mem))

\* Agent.role and the role text of the system prompt, fixed when the agent
\* is built from meta_priv["roles"] (lines 398-402); no later update of the
\* model rewrites the roles.  The GM and the System have no role.
RoleOf(a, mpriv) == IF a \in Range(names) THEN mpriv.roles[a] ELSE None

\* a request that hands out the Public State of the game's start
RequestWithInitialMeta(a, mp, mpriv, mem) ==
    [sys_prompt |-> <<a, RoleOf(a, mpriv)>>,
     history    |-> history(mem),
     meta_pub   |-> init_meta_pub,
     meta_priv  |-> IF a \in {"GM", "SYSTEM"} THEN mpriv ELSE EmptyDict]

\* a request that hands meta_priv to every callee
RequestWithPrivateMeta(a, mp, mpriv, mem) ==
    [sys_prompt |-> <<a, RoleOf(a, mpriv)>>,
     history    |-> history(mem),
     meta_pub   |-> mp,
     meta_priv  |-> mpriv]

\* lines 52-60 and 266-274: what the oracle is called with for callee a:
\* the system prompt of a, its recent memory, meta_pub, and meta_priv for
\* the GameMaster and the GameSystem, {} for a Player
Request(a, mp, mpriv, mem) ==
    [sys_prompt |-> <<a, RoleOf(a, mpriv)>>,
     history    |-> history(mem),
     meta_pub   |-> mp,
     meta_priv  |-> IF a \in {"GM", "SYSTEM"} THEN mpriv ELSE EmptyDict]

\* the states the generator of the random module can be in when the loop
\* starts: seeded by the caller, or from the system's entropy at import
Seeds == {0, 1}

\* the outcomes of random.shuffle(roles) explored
Wolves == {names[1]}

\* What can be at log_path when the program starts
InitialLogFiles ==
    { [st |-> "absent", v |-> <<>>],
      [st |-> "corrupt", v |-> <<>>],
      [st |-> "list", v |-> <<[phase |-> "end", winner |-> "OLD"]>>] }

\* the variables of main_async before it runs
SdgStart ==
    /\ turn = 0
    /\ winner = None
    /\ meta_pub = [phase |-> "unset"]
    /\ meta_priv = [phase |-> "unset"]
    /\ mem_log = [a \in MemOwners |-> <<>>]
    /\ pending = {}
    /\ pkgs = <<>>
    /\ requests = <<>>
    /\ speaker = None
    /\ public_log = <<>>
    /\ dm_log = <<>>
    /\ full_json_log = <<>>

\* lines 358-431: load the log, build the state and the agents, log the
\* role assignment and the initial meta, then rebind full_json_log to [].
\* With no file at log_path full_json_log has no value when append_to_log
\* first uses it: NameError, caught at line 564, sys.exit(1).
Setup ==
    /\ engine = "sdg" /\ pc = "start"
    /\ \E wolf \in Wolves :
          /\ meta_pub' = init_meta_pub
          /\ meta_priv' = init_meta_priv(wolf)
    /\ IF log_file.st = "absent"
       THEN /\ pc' = "aborted"
            /\ UNCHANGED log_file
       ELSE /\ pc' = "loop"
            /\ log_file' = [st |-> "list",
                            v |-> log_file.v \o <<[phase |-> "role_assignment"],
                                                  [phase |-> "initial_meta"]>>]
    /\ full_json_log' = <<>>
    /\ UNCHANGED <<flexVars, expVars, decVars, perfVars, engine, turn, winner, mem_log, pending, pkgs, requests,
                   speaker, rng, public_log, dm_log>>

\* a loop that starts the next round while the System's pass is still to come
StartRoundBeforeUpdate ==
    /\ engine = "sdg" /\ pc \in {"loop", "system"}
    /\ winner = None
    /\ turn < MaxTurn
    /\ turn' = turn + 1
    /\ pending' = AgentNames
    /\ pkgs' = <<>>
    /\ requests' = [a \in AgentNames |-> Request(a, meta_pub, meta_priv, mem_log[a])]
    /\ pc' = "bidding"
    /\ UNCHANGED <<flexVars, expVars, decVars, perfVars, engine, winner, meta_pub, meta_priv, mem_log, speaker, rng,
                   public_log, dm_log, full_json_log, log_file>>

\* the loop without "turn += 1"
StartRoundSameTurn ==
    /\ engine = "sdg" /\ pc = "loop"
    /\ winner = None
    /\ turn < MaxTurn
    /\ turn' = turn
    /\ pending' = AgentNames
    /\ pkgs' = <<>>
    /\ requests' = [a \in AgentNames |-> Request(a, meta_pub, meta_priv, mem_log[a])]
    /\ pc' = "bidding"
    /\ UNCHANGED <<flexVars, expVars, decVars, perfVars, engine, winner, meta_pub, meta_priv, mem_log, speaker, rng,
                   public_log, dm_log, full_json_log, log_file>>

\* lines 433-436 and 329-333: the loop test, turn += 1, and one
\* decide_async task per agent handed to asyncio.gather
StartRound ==
    /\ engine = "sdg" /\ pc = "loop"
    /\ winner = None
    /\ turn < MaxTurn
    /\ turn' = turn + 1
    /\ pending' = AgentNames
    /\ pkgs' = <<>>
    /\ requests' = [a \in AgentNames |-> Request(a, meta_pub, meta_priv, mem_log[a])]
    /\ pc' = "bidding"
    /\ UNCHANGED <<flexVars, expVars, decVars, perfVars, engine, winner, meta_pub, meta_priv, mem_log, speaker, rng,
                   public_log, dm_log, full_json_log, log_file>>

\* lines 50-72: the decide_async task of agent a returns, the oracle having
\* answered js
DecideWith(a, js) ==
    /\ engine = "sdg" /\ pc = "bidding"
    /\ a \in pending
    /\ pkgs' = (a :> decide_async(js)) @@ pkgs
    /\ pending' = pending \ {a}
    /\ UNCHANGED <<flexVars, expVars, decVars, perfVars, engine, pc, turn, winner, meta_pub, meta_priv, mem_log,
                   requests, speaker, rng, public_log, dm_log, full_json_log, log_file>>

Decide(a) == \E js \in OracleAnswers : DecideWith(a, js)

\* line 338: bids[agent.name] = float(result["bid"])
bids(pk) == [a \in DOMAIN pk |-> pk[a].bid]

\* line 452
max_bid(b) == Max({b[a] : a \in DOMAIN b})

\* line 453
max_bidders(b) == {a \in DOMAIN b : b[a] = max_bid(b)}

\* the selection without the GM rule
SpeakerChoicesNoGmRule(b) == max_bidders(b)

\* line 455: the values speaker can take
SpeakerChoices(b) ==
    IF "GM" \in max_bidders(b) THEN {"GM"} ELSE max_bidders(b)

\* the normalisation done against the living roster of meta_pub
RecipientsByLivingRoster(pkg) ==
    IF Range(pkg.to) = Range(meta_pub.alive) THEN <<"ALL">> ELSE pkg.to

\* the agents of S in the order of the bids dict
Candidates(S) == SelectSeq(agents, LAMBDA a : a \in S)

\* a choice that ignores the generator
first_candidate(g, seq) == seq[1]

\* random.choice(seq): the element the generator in state g picks
random_choice(g, seq) == seq[(g % Len(seq)) + 1]

\* the generator after one draw
Advance(g) == (g + 1) % Cardinality(Seeds)

\* lines 459-461: the recipient list of the winning package
Recipients(pkg) ==
    IF \A i \in 1..Len(names) : names[i] \in Range(pkg.to)
    THEN <<"ALL">>
    ELSE pkg.to

\* the delivery loop run over every player instead of the recipients
DeliverToEveryPlayer(mem, rs, t, spk, txt) ==
    [mem |-> [a \in MemOwners |->
                IF a \in Range(names) THEN Append(mem[a], <<t, spk, <<a>>, txt>>)
                ELSE mem[a]],
     ok |-> TRUE]

\* lines 493-494: agents[r].mem_log.append(...) for r in recipients, up to
\* the first r that is no key of agents (KeyError)
RECURSIVE DeliverTo(_, _, _, _, _)
DeliverTo(mem, rs, t, spk, txt) ==
    IF rs = <<>> THEN [mem |-> mem, ok |-> TRUE]
    ELSE IF Head(rs) \notin AgentNames THEN [mem |-> mem, ok |-> FALSE]
    ELSE DeliverTo([mem EXCEPT ![Head(rs)] = Append(@, <<t, spk, <<Head(rs)>>, txt>>)],
                   Tail(rs), t, spk, txt)

\* routing without line 496, the GameSystem's copy of a direct message
RouteForgetsSystem(mem, recipients, t, spk, txt) ==
    IF "ALL" \in Range(recipients)
    THEN [mem |-> [a \in MemOwners |-> Append(mem[a], <<t, spk, <<"ALL">>, txt>>)],
          ok |-> TRUE]
    ELSE DeliverTo([mem EXCEPT ![spk] = Append(@, <<t, spk, recipients, txt>>)],
                   recipients, t, spk, txt)

\* lines 483-496: the memories after routing one message
Route(mem, recipients, t, spk, txt) ==
    IF "ALL" \in Range(recipients)
    THEN [mem |-> [a \in MemOwners |-> Append(mem[a], <<t, spk, <<"ALL">>, txt>>)],
          ok |-> TRUE]
    ELSE LET own == [mem EXCEPT ![spk] = Append(@, <<t, spk, recipients, txt>>)]
             dlv == DeliverTo(own, recipients, t, spk, txt)
         IN  IF dlv.ok
             THEN [mem |-> [dlv.mem EXCEPT !["SYSTEM"] =
                                Append(@, <<t, spk, recipients, txt>>)],
                   ok |-> TRUE]
             ELSE dlv

\* lines 439-449: one bid record per agent, in the order of the agents dict
BidEntries(t) == [i \in 1..Len(agents) |-> [phase |-> "bid", turn |-> t, agent |-> agents[i]]]

\* lines 478-479
DmEntries(t, spk, recipients, txt) ==
    [i \in 1..Len(recipients) |-> <<t, spk, recipients[i], txt>>]

\* lines 335-506: gather has returned; log the bids, select the speaker,
\* route its message and log it
SelectAndRoute ==
    /\ engine = "sdg" /\ pc = "bidding"
    /\ pending = {}
    /\ LET spk == random_choice(rng, Candidates(SpeakerChoices(bids(pkgs)))) IN
          LET pkg        == pkgs[spk]
              utter      == strip(pkg.msg)
              recipients == Recipients(pkg)
              is_all     == "ALL" \in Range(recipients)
              routed     == Route(mem_log, recipients, turn, spk, utter)
              selected   == full_json_log \o BidEntries(turn) \o
                            <<[phase |-> "selection", turn |-> turn,
                               selected_speaker |-> spk]>>
              message    == [phase |-> "message", turn |-> turn, speaker |-> spk,
                             to |-> recipients, is_dm |-> ~is_all, msg |-> utter]
          IN  /\ speaker' = spk
              /\ rng' = IF "GM" \in max_bidders(bids(pkgs)) THEN rng ELSE Advance(rng)
              /\ IF utter = ""
                 THEN /\ UNCHANGED <<mem_log, public_log, dm_log>>
                      /\ full_json_log' = selected
                      /\ pc' = "system"
                 ELSE /\ mem_log' = routed.mem
                      /\ public_log' = IF is_all
                                       THEN Append(public_log, <<turn, spk, utter>>)
                                       ELSE public_log
                      /\ dm_log' = IF is_all
                                   THEN dm_log
                                   ELSE dm_log \o DmEntries(turn, spk, recipients, utter)
                      /\ full_json_log' = IF routed.ok THEN Append(selected, message)
                                          ELSE selected
                      /\ pc' = IF routed.ok THEN "system" ELSE "aborted"
    /\ log_file' = [st |-> "list", v |-> full_json_log']
    /\ UNCHANGED <<flexVars, expVars, decVars, perfVars, engine, turn, winner, meta_pub, meta_priv, pending, pkgs,
                   requests>>

\* a JSON object / a JSON value that is no object
Map(d) == [t |-> "map", d |-> d]
NotAMap == [t |-> "str", d |-> EmptyDict]

\* truth value of a JSON value in "if update_pub or update_priv"
Truthy(j) == j.t # "map" \/ DOMAIN j.d # {}

\* the public delta that moves the last living player from alive to dead
Eliminate(mp) ==
    LET p == mp.alive[Len(mp.alive)]
    IN  [alive |-> SubSeq(mp.alive, 1, Len(mp.alive) - 1), dead |-> Append(mp.dead, p)]

\* What system_chain.invoke can do: raise, return something that is no
\* dict, or return a dict with some of update_pub, update_priv, winner.
SystemAnswers(mp) ==
    { [kind |-> "raise", d |-> EmptyDict], [kind |-> "nondict", d |-> EmptyDict],
      [kind |-> "dict", d |-> [reason |-> "No updates needed"]],
      [kind |-> "dict", d |-> [update_priv |-> Map([note |-> "n"]),
                               winner |-> "VILLAGERS"]],
      [kind |-> "dict", d |-> [update_pub |-> NotAMap]],
      [kind |-> "dict", d |-> [winner |-> "WOLVES"]] }
    \cup (IF mp.alive = <<>> THEN {} ELSE
          { [kind |-> "dict", d |-> [update_pub |-> Map(Eliminate(mp))]],
            [kind |-> "dict", d |-> [update_pub |-> Map(Eliminate(mp)),
                                     winner |-> "VILLAGERS"]] })

\* GameSystem.process_game_state, lines 262-281
process_game_state(ans) == IF ans.kind = "dict" THEN ans.d ELSE EmptyDict

\* lines 509-556: the System's answer is logged, its deltas are applied to
\* meta_pub and meta_priv, and winner is read.  dict.update with a value
\* that is no mapping raises: caught at line 564, sys.exit(1).
SystemUpdate ==
    /\ engine = "sdg" /\ pc = "system"
    /\ \E ans \in SystemAnswers(meta_pub) :
          LET system_response == process_game_state(ans)
              update_pub  == Get(system_response, "update_pub", Map(EmptyDict))
              update_priv == Get(system_response, "update_priv", Map(EmptyDict))
              logged == Append(full_json_log,
                               [phase |-> "system_update", turn |-> turn,
                                update_pub |-> update_pub, update_priv |-> update_priv,
                                winner |-> Get(system_response, "winner", None)])
              changed == Truthy(update_pub) \/ Truthy(update_priv)
              pub_ok  == update_pub.t = "map"
              priv_ok == update_priv.t = "map"
          IN  /\ meta_pub' = IF changed /\ pub_ok
                             THEN DictUpdate(meta_pub, update_pub.d) ELSE meta_pub
              /\ meta_priv' = IF changed /\ pub_ok /\ priv_ok
                              THEN DictUpdate(meta_priv, update_priv.d) ELSE meta_priv
              /\ full_json_log' = IF changed /\ pub_ok /\ priv_ok
                                  THEN Append(logged, [phase |-> "meta_change",
                                                       turn |-> turn])
                                  ELSE logged
              /\ IF changed /\ ~(pub_ok /\ priv_ok)
                 THEN pc' = "aborted" /\ UNCHANGED winner
                 ELSE pc' = "loop" /\ winner' = Get(system_response, "winner", None)
    /\ log_file' = [st |-> "list", v |-> full_json_log']
    /\ pkgs' = <<>>
    /\ requests' = ("SYSTEM" :> Request("SYSTEM", meta_pub, meta_priv, mem_log["SYSTEM"]))
                    @@ requests
    /\ UNCHANGED <<flexVars, expVars, decVars, perfVars, engine, turn, mem_log, pending, speaker, rng, public_log,
                   dm_log>>

\* lines 558-561: the loop has ended; the end record is logged
GameEnd ==
    /\ engine = "sdg" /\ pc = "loop"
    /\ winner # None
    /\ full_json_log' = Append(full_json_log, [phase |-> "end", winner |-> winner])
    /\ log_file' = [st |-> "list", v |-> full_json_log']
    /\ pc' = "done"
    /\ UNCHANGED <<flexVars, expVars, decVars, perfVars, engine, turn, winner, meta_pub, meta_priv, mem_log, pending,
                   pkgs, requests, speaker, rng, public_log, dm_log>>

----------------------------------------------------------------------------
(* perform_experiments.py: run_experiment                                  *)
(*                                                                         *)
(* A file is absent, text that is no JSON, or a JSON object v.  The        *)
(* directory run_N is absent or holds final_info.json.  stderr is the      *)
(* number of characters the process wrote to it.  A metric value is an     *)
(* integer number of tenths.  A prompt keeps what the text says, the run   *)
(* number, the results, the error text and the timeout it quotes.          *)

MAX_STDERR_OUTPUT == 1500

MaxRunNum == 2      \* run numbers explored

RunNums == 1..MaxRunNum

NoFile == [st |-> "absent", v |-> EmptyDict]

NotJson == [st |-> "text", v |-> EmptyDict]

JsonFile(v) == [st |-> "json", v |-> v]

NoDir == [st |-> "absent", final_info |-> NoFile]

Dir(f) == [st |-> "dir", final_info |-> f]

\* the objects an experiment script dumps into final_info.json
FinalInfos ==
    { EmptyDict,
      [metric |-> [means |-> 5]],
      [loss |-> [means |-> 3, stderrs |-> 1], acc |-> [means |-> 9, stderrs |-> 0]],
      [loss |-> [stderrs |-> 1]],
      [loss |-> [means |-> 3], acc |-> [stderrs |-> 1]] }

\* what the script does to its --out_dir
NoWrite == [op |-> "nothing", file |-> NoFile]

Writes ==
    { NoWrite, [op |-> "mkdir", file |-> NoFile], [op |-> "write", file |-> NotJson] }
       \cup { [op |-> "write", file |-> JsonFile(v)] : v \in FinalInfos }

\* os.makedirs(out_dir, exist_ok=True) and the dump of final_info.json
Effect(w, dir) ==
    CASE w.op = "nothing" -> dir
      [] w.op = "mkdir"   -> IF dir.st = "absent" THEN Dir(NoFile) ELSE dir
      [] w.op = "write"   -> Dir(w.file)

NoProc == [ends |-> "none", returncode |-> 0, stderr |-> 0, writes |-> NoWrite]

\* subprocess.run: the process exits with a return code, or TimeoutExpired
Procs ==
    [ends : {"exit"}, returncode : {0, 1, 2},
     stderr : {0, 1, MAX_STDERR_OUTPUT, MAX_STDERR_OUTPUT + 1}, writes : Writes]
       \cup [ends : {"timeout"}, returncode : {0}, stderr : {0, 1}, writes : Writes]

NoPrompt ==
    [says |-> "", run_num |-> 0, results |-> EmptyDict, dots |-> FALSE,
     stderr |-> 0, next_run |-> 0, timeout |-> 0]

\* lines 113-124
Completed(run_num, results) ==
    [NoPrompt EXCEPT !.says = "Run completed. Here are the results:",
                     !.run_num = run_num, !.results = results,
                     !.next_run = run_num + 1]

\* lines 104-107: the last MAX_STDERR_OUTPUT characters behind "..."
Failed(stderr) ==
    [NoPrompt EXCEPT !.says = "Run failed with the following error",
                     !.dots = stderr > MAX_STDERR_OUTPUT,
                     !.stderr = IF stderr > MAX_STDERR_OUTPUT
                                THEN MAX_STDERR_OUTPUT ELSE stderr]

\* line 130
TimedOut(timeout) ==
    [NoPrompt EXCEPT !.says = "Run timed out after", !.timeout = timeout]

NoRet == [exc |-> None, code |-> 0, prompt |-> NoPrompt]

Return(code, prompt) == [exc |-> None, code |-> code, prompt |-> prompt]

Raise(exc) == [exc |-> exc, code |-> 0, prompt |-> NoPrompt]

ResultsNamesOnly(v) == [k \in DOMAIN v |-> 0]

\* line 111: {k: v["means"] for k, v in results.items()}
Results(v) == [k \in DOMAIN v |-> v[k].means]

\* a failure branch without lines 98-99 and 127-128
rmtree_skipped(f, run_num) == f

\* lines 98-99 and 127-128
rmtree(f, run_num) == [f EXCEPT !.run[run_num] = NoDir]

\* lines 53-131; the result is the return value and the folder left behind
run_experiment(a, f, p) ==
    IF a.use_docker /\ ~f.docker
    THEN [ret |-> Raise("EnvironmentError"), fs |-> f]
    ELSE IF ~f.experiment_py
    THEN [ret |-> Raise("FileNotFoundError"), fs |-> f]
    ELSE LET copied == [f EXCEPT !.copies = @ \cup {a.run_num}]
             ran    == [copied EXCEPT !.run[a.run_num] = Effect(p.writes, @)]
             file   == ran.run[a.run_num].final_info
         IN  IF p.ends = "timeout"
             THEN [ret |-> Return(1, TimedOut(a.timeout)), fs |-> rmtree(ran, a.run_num)]
             ELSE IF p.returncode # 0
             THEN [ret |-> Return(p.returncode, Failed(p.stderr)),
                   fs  |-> rmtree(ran, a.run_num)]
             ELSE IF file.st = "absent"
             THEN [ret |-> Raise("FileNotFoundError"), fs |-> ran]
             ELSE IF file.st = "text"
             THEN [ret |-> Raise("JSONDecodeError"), fs |-> ran]
             ELSE IF \E k \in DOMAIN file.v : "means" \notin DOMAIN file.v[k]
             THEN [ret |-> Raise("KeyError"), fs |-> ran]
             ELSE [ret |-> Return(0, Completed(a.run_num, Results(file.v))), fs |-> ran]

\* the experiment variables while another program runs
ExpIdle ==
    /\ call = [run_num |-> 0, timeout |-> 0, use_docker |-> FALSE]
    /\ fs = [docker |-> FALSE, experiment_py |-> FALSE, copies |-> {},
             run |-> [n \in RunNums |-> NoDir]]
    /\ proc = NoProc
    /\ ret = NoRet

\* the variables of perform_experiments while another program runs
PerfIdle ==
    /\ run = 0
    /\ current_iter = 0
    /\ next_prompt = NoPrompt
    /\ attempts = <<>>
    /\ result = None

----------------------------------------------------------------------------
(* flex_social_deduction.py: the game explored *)

\* line 366: one name per role object of spec["roles"]
players == <<"P1", "P2", "P3">>

\* lines 362-371: the shuffle's outcome explored, one Imp and two Villagers
priv ==
    [p \in Range(players) |->
        IF p = "P1" THEN [role |-> "Imp", team |-> "Evil", abilities |-> {"demon_kill"}]
        ELSE [role |-> "Villager", team |-> "Town", abilities |-> {}]]

team_of == [p \in Range(players) |-> priv[p].team]

\* blood_clocktower_plugin.py SPEC_JSON["victory"]
SpecVictoryRules ==
    << <<"Town", <<W("Evil"), O("=="), N(0)>> >>,
       <<"Evil", <<W("Evil"), O(">="), W("Town")>> >> >>

\* spec["meta"]: a turn limit and one deck
SpecMeta == [turn_limit |-> TurnLimit, deck |-> <<"c1", "c2">>]

\* spec["phases"]: the "type" of each entry of the static phase list
SpecPhases ==
    <<"discussion", "vote", "ability", "ability", "ability", "ability", "ability",
      "gm_directive">>

\* the keys of phase_handlers after the module is loaded
phase_handlers == {"gm_directive", "discussion", "vote", "ability"}

\* the meta keys that hold a list
ListKeys == {"deck", "gm_last_draw"}

Msg(by, text) == [by |-> by, text |-> text]

\* lines 373-378
FlexStart ==
    /\ victory = SpecVictoryRules
    /\ state = [messages |-> <<Msg("GM", "Game begins")>>, turn |-> 0,
                alive |-> players, meta |-> SpecMeta]
    /\ phase = None
    /\ win = None

\* the flex variables while another program runs
FlexIdle ==
    /\ victory = <<>>
    /\ state = [messages |-> <<>>, turn |-> 0, alive |-> <<>>, meta |-> EmptyDict]
    /\ phase = None
    /\ win = None

Init ==
    \/ /\ engine = "sdg" /\ pc = "start"
       /\ SdgStart /\ log_file \in InitialLogFiles /\ rng \in Seeds
       /\ FlexIdle /\ ExpIdle /\ DecIdle /\ PerfIdle
    \/ /\ engine = "flex" /\ pc = "gm"
       /\ FlexStart /\ ExpIdle /\ DecIdle /\ PerfIdle
       /\ SdgStart /\ log_file = [st |-> "absent", v |-> <<>>] /\ rng = 0

----------------------------------------------------------------------------
(* flex_social_deduction.py: deck helpers and _ph_gm *)

IntN(v) == [t |-> "int", v |-> v]
NullN == [t |-> "null", v |-> 0]

Min(a, b) == IF a < b THEN a ELSE b

\* the index at which s[:n] ends and s[n:] begins
SliceAt(s, n) ==
    IF n.v >= 0 THEN Min(n.v, Len(s))
    ELSE IF Len(s) + n.v > 0 THEN Len(s) + n.v ELSE 0

\* s[:n]; s[:None] is all of s
SliceTo(s, n) == IF n.t = "null" THEN s ELSE SubSeq(s, 1, SliceAt(s, n))

\* s[n:]; s[None:] is all of s
SliceFrom(s, n) == IF n.t = "null" THEN s ELSE SubSeq(s, SliceAt(s, n) + 1, Len(s))

Perms(s) ==
    { [i \in 1..Len(s) |-> s[f[i]]] :
        f \in { g \in [1..Len(s) -> 1..Len(s)] :
                  \A i, j \in 1..Len(s) : i # j => g[i] # g[j] } }

\* draw, lines 112-121, with line 220: the state after cards = draw(...) and
\* state["meta"]["gm_last_draw"] = cards.  Slicing a value that is no list
\* raises before anything is assigned.
draw(st, deck_name, n) ==
    IF deck_name \notin DOMAIN st.meta
    THEN [st EXCEPT !.meta = DictUpdate(@, [gm_last_draw |-> <<>>])]
    ELSE IF deck_name \notin ListKeys THEN st
    ELSE LET d == st.meta[deck_name]
             after == (deck_name :> SliceFrom(d, n)) @@ st.meta
         IN  [st EXCEPT !.meta = DictUpdate(after, [gm_last_draw |-> SliceTo(d, n)])]

\* shuffle_deck, lines 105-110: the states random.shuffle can leave
shuffle_deck(st, deck_name) ==
    IF deck_name \notin DOMAIN st.meta \/ deck_name \notin ListKeys THEN {st}
    ELSE { [st EXCEPT !.meta = (deck_name :> d) @@ @] : d \in Perms(st.meta[deck_name]) }

\* lines 210-224: the engine command of a directive; an exception inside is
\* caught and the command is dropped
ExecCmd(st, cmd) ==
    IF DOMAIN cmd = {} THEN {st}
    ELSE IF "op" \notin DOMAIN cmd \/ "deck" \notin DOMAIN cmd THEN {st}
    ELSE CASE cmd.op = "draw"    -> {draw(st, cmd.deck, Get(cmd, "n", IntN(1)))}
           [] cmd.op = "shuffle" -> shuffle_deck(st, cmd.deck)
           [] OTHER              -> {st}

Directive(np, mu, ec) ==
    [kind |-> "ok",
     d |-> [next_phase |-> np, public_msg |-> "go", meta_update |-> mu, engine_cmd |-> ec]]

\* lines 202-207
InvalidDirective ==
    [next_phase |-> "", public_msg |-> "GM: (invalid directive)",
     meta_update |-> EmptyDict, engine_cmd |-> EmptyDict]

\* What the directive chain can do: raise, or return a directive
DirectiveAnswers ==
    { [kind |-> "raise", d |-> InvalidDirective] }
    \cup { Directive(np, EmptyDict, EmptyDict) :
             np \in {"discussion", "vote", "gm_directive", "ability", "night", ""} }
    \cup { Directive("discussion", [turn_limit |-> TurnLimit + 1], EmptyDict),
           Directive("vote", EmptyDict, [op |-> "draw", deck |-> "deck", n |-> IntN(1)]),
           Directive("discussion", EmptyDict, [op |-> "shuffle", deck |-> "deck"]),
           Directive("vote", EmptyDict, [op |-> "draw", deck |-> "pile"]),
           Directive("vote", EmptyDict, [op |-> "peek", deck |-> "deck"]),
           Directive("vote", [note |-> 1], [op |-> "draw"]),
           Directive("vote", EmptyDict, [op |-> "shuffle", deck |-> "turn_limit"]) }

\* _ph_gm with the limit test "turn > turn_limit"
ph_gm_limit_off_by_one(st, ans) ==
    LET js_dict == IF ans.kind = "raise" THEN InvalidDirective ELSE ans.d
        said(s) == [s EXCEPT !.messages = Append(@, Msg("GM", js_dict.public_msg))]
        updated(s) == IF DOMAIN js_dict.meta_update # {}
                      THEN [s EXCEPT !.meta = DictUpdate(@, js_dict.meta_update)]
                      ELSE s
        next_phase(s) == IF "turn_limit" \in DOMAIN s.meta /\ s.turn > s.meta.turn_limit
                         THEN "timeout_victory"
                         ELSE js_dict.next_phase
    IN  { [st |-> updated(said(s1)), next_phase |-> next_phase(updated(said(s1)))] :
            s1 \in ExecCmd(st, js_dict.engine_cmd) }

\* _ph_gm, lines 164-247: the pairs of state and returned phase tag
ph_gm(st, ans) ==
    LET js_dict == IF ans.kind = "raise" THEN InvalidDirective ELSE ans.d
        said(s) == [s EXCEPT !.messages = Append(@, Msg("GM", js_dict.public_msg))]
        updated(s) == IF DOMAIN js_dict.meta_update # {}
                      THEN [s EXCEPT !.meta = DictUpdate(@, js_dict.meta_update)]
                      ELSE s
        next_phase(s) == IF "turn_limit" \in DOMAIN s.meta /\ s.turn >= s.meta.turn_limit
                         THEN "timeout_victory"
                         ELSE js_dict.next_phase
    IN  { [st |-> updated(said(s1)), next_phase |-> next_phase(updated(said(s1)))] :
            s1 \in ExecCmd(st, js_dict.engine_cmd) }

----------------------------------------------------------------------------
(* flex_social_deduction.py: phase handlers and main *)

\* bids and vote targets the player oracles are given to choose from
FlexBids == {0, 10}
VoteTargets == Range(players) \cup {"Nobody"}

\* lines 253-256: timer_init is set from the timer the first time
discussion_header(st) ==
    IF "timer" \in DOMAIN st.meta
    THEN [st EXCEPT !.meta = DictUpdate([timer_init |-> st.meta.timer], @)]
    ELSE st

\* line 264: the values speaker can take for the bids b
FlexSpeakers(b) == {p \in DOMAIN b : \A q \in DOMAIN b : b[q] <= b[p]}

\* a discussion in which every top bidder speaks
ph_discussion_every_top_bidder(st) ==
    { [st |-> discussion_header(st), ok |-> FALSE] }
    \cup { LET who == SelectSeq(st.alive, LAMBDA x : x \in FlexSpeakers(b)) IN
           [st |-> [discussion_header(st) EXCEPT !.messages =
                       @ \o [i \in 1..Len(who) |-> Msg(who[i], "hi")]],
            ok |-> TRUE] :
             b \in [Range(st.alive) -> FlexBids] }

\* _ph_discussion, lines 250-267.  An oracle call that raises, and
\* random.choice of an empty list, leave by an exception.
ph_discussion(st) ==
    { [st |-> discussion_header(st), ok |-> FALSE] }
    \cup { [st |-> [discussion_header(st) EXCEPT !.messages = Append(@, Msg(sp, u))],
            ok |-> TRUE] :
             sp \in UNION { FlexSpeakers(b) : b \in [Range(st.alive) -> FlexBids] },
             u \in {"hi"} }

\* line 296: the targets with the most votes
TopTargets(votes) ==
    LET n(t) == Cardinality({p \in DOMAIN votes : votes[p] = t})
    IN  {t \in VoteTargets : n(t) > 0 /\ \A u \in VoteTargets : n(u) <= n(t)}

\* lines 297-300
eliminate_by_vote(st, victim) ==
    IF victim \in Range(st.alive)
    THEN [st EXCEPT !.alive = SelectSeq(@, LAMBDA x : x # victim),
                    !.messages = Append(@, [by |-> "GM", text |-> "eliminated",
                                            who |-> victim])]
    ELSE st

\* _ph_vote, lines 269-301
ph_vote(st) ==
    { [st |-> st, ok |-> FALSE] }
    \cup { [st |-> eliminate_by_vote(st, victim), ok |-> TRUE] :
             victim \in UNION { TopTargets(v) : v \in [Range(st.alive) -> VoteTargets] } }

\* _ph_ability, lines 303-308, called as main calls it: ph_cfg is {} and
\* ph_cfg["ability"] raises KeyError
ph_ability(st) == { [st |-> st, ok |-> FALSE] }

\* line 388: the handler registered for the tag
RunHandler(tag, st) ==
    CASE tag = "discussion"   -> ph_discussion(st)
      [] tag = "vote"         -> ph_vote(st)
      [] tag = "ability"      -> ph_ability(st)
      [] tag = "gm_directive" ->
            UNION { { [st |-> r.st, ok |-> TRUE] : r \in ph_gm(st, ans) } :
                      ans \in DirectiveAnswers }

\* lines 380-384: the GM decides the next phase; an empty or unregistered
\* tag ends the loop and main returns
GmDirectiveWith(ans) ==
    /\ engine = "flex" /\ pc = "gm"
    /\ state.turn <= TurnLimit
    /\ \E r \in ph_gm(state, ans) :
          /\ state' = r.st
          /\ phase' = r.next_phase
          /\ pc' = IF r.next_phase = "" \/ r.next_phase \notin phase_handlers
                   THEN "ended" ELSE "step"
    /\ UNCHANGED <<sdgVars, expVars, decVars, perfVars, engine, victory, win>>

GmDirective == \E ans \in DirectiveAnswers : GmDirectiveWith(ans)

\* lines 386-396: turn += 1, the handler of the phase, the victory check
PhaseStep ==
    /\ engine = "flex" /\ pc = "step"
    /\ \E r \in RunHandler(phase, [state EXCEPT !.turn = @ + 1]) :
          IF ~r.ok
          THEN /\ state' = r.st
               /\ pc' = "crashed"
               /\ UNCHANGED win
          ELSE LET w == check_victory(r.st.alive, team_of, r.st.meta, victory) IN
               /\ win' = w
               /\ state' = IF w \notin {None, "SystemExit"}
                           THEN [r.st EXCEPT !.messages =
                                    Append(@, [by |-> "GM", text |-> "win", who |-> w])]
                           ELSE r.st
               /\ pc' = CASE w = None         -> "gm"
                          [] w = "SystemExit" -> "crashed"
                          [] OTHER            -> "won"
    /\ UNCHANGED <<sdgVars, expVars, decVars, perfVars, engine, victory, phase>>

Next ==
    \/ Setup
    \/ StartRound
    \/ \E a \in AgentNames : Decide(a)
    \/ SelectAndRoute
    \/ SystemUpdate
    \/ GameEnd
    \/ GmDirective
    \/ PhaseStep

Spec == Init /\ [][Next]_vars

----------------------------------------------------------------------------
(* check_victory applied to rosters, meta counters and rules drawn from    *)
(* bounded sets                                                            *)

\* a game of five Town and one Evil participant
VictoryPlayers == <<"P1", "P2", "P3", "P4", "P5", "P6">>

VictoryTeams == [p \in Range(VictoryPlayers) |-> IF p = "P6" THEN "Evil" ELSE "Town"]

\* the living rosters: the players minus any set of eliminated ones
Rosters == { SelectSeq(VictoryPlayers, LAMBDA x : x \notin dead) :
               dead \in SUBSET Range(VictoryPlayers) }

\* scalar meta entries
VictoryMetas == { EmptyDict, [turn_limit |-> 20], [Evil |-> 0] }

Rule(team, ts) == << <<team, ts>> >>

\* victory mappings: the one of SPEC_JSON, and single rules
VictoryRuleSets ==
    { SpecVictoryRules,
      Rule("Town", <<W("Evil"), O("=="), N(0)>>),
      Rule("Evil", <<W("Evil"), O(">="), W("Town")>>),
      Rule("Town", <<W("Town"), O(">"), N(0)>>),
      Rule("Town", <<W("Ghost"), O("=="), N(0)>>),
      Rule("Town", <<W("abs"), O("("), N(1), O(")")>>),
      Rule("Town", <<W("int")>>),
      Rule("Town", <<W("exit"), O("("), O(")")>>),
      Rule("Town", <<W("Town"), O("!="), N(9)>>),
      Rule("Town", <<W("Town"), O("!="), W("Evil")>>),
      Rule("Town", <<W("Town0"), O(">="), N(0)>>),
      Rule("Town", <<W("Town_x"), O(">="), N(0)>>),
      Rule("Evil", <<W("Towns"), O(">="), N(0)>>) \o Rule("Town", <<W("Town"), O(">="), N(1)>>),
      Rule("Town", <<W("Town"), O("/"), N(2), O("=="), N(2)>>),
      Rule("Town", <<W("Town"), O("="), N(5)>>),
      Rule("Town", <<W("turn_limit"), O("/"), N(8), O(">"), N(2)>>),
      Rule("Ghost", <<W("Town"), O(">="), N(1)>>) \o Rule("Town", <<N(1), O("=="), N(1)>>),
      Rule("Evil", <<W("Ghost")>>) \o Rule("Town", <<W("Town"), O(">="), N(1)>>),
      Rule("Evil", <<W("exit"), O("("), O(")")>>)
         \o Rule("Town", <<W("Town"), O(">="), N(0)>>) }

InitVictory ==
    /\ engine = "victory" /\ pc = "input"
    /\ victory \in VictoryRuleSets
    /\ \E alive \in Rosters, meta \in VictoryMetas :
          state = [messages |-> <<>>, turn |-> 0, alive |-> alive, meta |-> meta]
    /\ phase = None
    /\ win = None
    /\ SdgStart /\ log_file = [st |-> "absent", v |-> <<>>] /\ rng = 0
    /\ ExpIdle /\ DecIdle /\ PerfIdle

\* line 391: win = check_victory(state, priv, spec)
VictoryCheck ==
    /\ engine = "victory" /\ pc = "input"
    /\ win' = check_victory(state.alive, VictoryTeams, state.meta, victory)
    /\ pc' = "checked"
    /\ UNCHANGED <<sdgVars, expVars, decVars, perfVars, engine, victory, state, phase>>

NextVictory == VictoryCheck

SpecVictory == InitVictory /\ [][NextVictory]_vars

----------------------------------------------------------------------------
(* run_experiment applied to arguments, folders and experiment processes   *)
(* drawn from bounded sets                                                 *)

Timeouts == {30, 7200}

\* what run_N holds before the call
StartDirs == { NoDir, Dir(NoFile), Dir(JsonFile([metric |-> [means |-> 1]])) }

\* the folder before run N: the runs before N have completed
Folders(run_num) ==
    { [docker |-> d, experiment_py |-> e, copies |-> {n \in RunNums : n < run_num},
       run |-> [n \in RunNums |->
                  IF n < run_num THEN Dir(JsonFile([metric |-> [means |-> 5]]))
                  ELSE IF n = run_num THEN dir ELSE NoDir]] :
        d \in BOOLEAN, e \in BOOLEAN, dir \in StartDirs }

InitExperiment ==
    /\ engine = "experiment" /\ pc = "call"
    /\ call \in [run_num : RunNums, timeout : Timeouts, use_docker : BOOLEAN]
    /\ fs \in Folders(call.run_num)
    /\ proc = NoProc
    /\ ret = NoRet
    /\ SdgStart /\ log_file = [st |-> "absent", v |-> <<>>] /\ rng = 0
    /\ FlexIdle /\ DecIdle /\ PerfIdle

\* the process is started only behind lines 54-60
Started == (call.use_docker => fs.docker) /\ fs.experiment_py

\* return_code, next_prompt = run_experiment(folder, run_num, timeout, use_docker)
RunExperiment ==
    /\ engine = "experiment" /\ pc = "call"
    /\ \E p \in (IF Started THEN Procs ELSE {NoProc}) :
          LET r == run_experiment(call, fs, p)
          IN  /\ proc' = p
              /\ ret' = r.ret
              /\ fs' = r.fs
    /\ pc' = IF ret'.exc = None THEN "returned" ELSE "raised"
    /\ UNCHANGED <<sdgVars, flexVars, decVars, perfVars, engine, call>>

NextExperiment == RunExperiment

SpecExperiment == InitExperiment /\ [][NextExperiment]_vars

----------------------------------------------------------------------------
(* Agent.decide_async applied to oracle answers drawn from bounded sets    *)

\* bids in tenths, inside and outside of [0, 1]
AnswerBids == {-10, -1, 0, 5, 10, 11, 15}

AnswerMsgs == {"", "hi", " hi "}

AnswerTos == { <<"ALL">>, <<"P1">>, names, <<"GM", "Px">> }

\* what main_chain.ainvoke can do: raise, return text that is no JSON, or
\* return a JSON object with the fields bid, msg, to, reason
Answers ==
    { [kind |-> "raise"], [kind |-> "text"] }
       \cup { Json(b, m, t) : b \in AnswerBids, m \in AnswerMsgs, t \in AnswerTos }

InitDecide ==
    /\ engine = "decide" /\ pc = "call"
    /\ answer \in Answers
    /\ response = NoResponse
    /\ SdgStart /\ log_file = [st |-> "absent", v |-> <<>>] /\ rng = 0
    /\ FlexIdle /\ ExpIdle /\ PerfIdle

\* lines 55-72: the oracle has answered, decide_async returns
DecideAsync ==
    /\ engine = "decide" /\ pc = "call"
    /\ response' = decide_async(answer)
    /\ pc' = "returned"
    /\ UNCHANGED <<sdgVars, flexVars, expVars, perfVars, engine, answer>>

NextDecide == DecideAsync

SpecDecide == InitDecide /\ [][NextDecide]_vars

----------------------------------------------------------------------------
(* main_async with an oracle call that may never return                    *)
(*                                                                         *)
(* The event loop runs every step of main_async that is ready, and the     *)
(* oracle calls of the agents in Answering return.  Nothing makes the call *)
(* of the other agent return: lines 56-60 await main_chain.ainvoke and     *)
(* line 333 awaits asyncio.gather, both without a timeout.                 *)

Answering == AgentNames \ {"P2"}

InitSdg ==
    /\ engine = "sdg" /\ pc = "start"
    /\ SdgStart /\ log_file \in InitialLogFiles /\ rng \in Seeds
    /\ FlexIdle /\ ExpIdle /\ DecIdle /\ PerfIdle

NextSdg ==
    \/ Setup
    \/ StartRound
    \/ \E a \in AgentNames : Decide(a)
    \/ SelectAndRoute
    \/ SystemUpdate
    \/ GameEnd

SpecHang ==
    /\ InitSdg /\ [][NextSdg]_vars
    /\ WF_vars(Setup) /\ WF_vars(StartRound) /\ WF_vars(SelectAndRoute)
    /\ WF_vars(SystemUpdate) /\ WF_vars(GameEnd)
    /\ \A a \in Answering : WF_vars(Decide(a))

----------------------------------------------------------------------------
(* Properties of the bid / speak / update loop *)

Last(q) == q[Len(q)]

\* the records of the event log of one phase and one turn
LogIndexes(ph, t) ==
    {i \in 1..Len(full_json_log) :
        full_json_log[i].phase = ph /\ full_json_log[i].turn = t}

\* the participants that wrote a memory entry of turn t somewhere
SendersOf(t) ==
    UNION { {mem_log[a][i][2] : i \in {j \in 1..Len(mem_log[a]) : mem_log[a][j][1] = t}} :
              a \in MemOwners }

\* the messages of state["messages"] that a player wrote
PlayerMessages ==
    {i \in 1..Len(state.messages) : state.messages[i].by \in Range(players)}

\* the selection of the current round is made and its packages are at hand
Selected == engine = "sdg" /\ pc \in {"system", "aborted"} /\ DOMAIN pkgs = AgentNames

\* C1: in every round at most one participant's message is committed: the
\* event log holds at most one message record per turn, the memories hold
\* entries of at most one sender per turn, and the phase engine has added
\* at most one player message per executed phase step, ties included.
C1_OneMessagePerRound ==
    /\ engine = "sdg" =>
          \A t \in 0..turn :
             /\ Cardinality(LogIndexes("message", t)) <= 1
             /\ Cardinality(SendersOf(t)) <= 1
             /\ Cardinality({i \in 1..Len(public_log) : public_log[i][1] = t}) <= 1
    /\ engine = "flex" => Cardinality(PlayerMessages) <= state.turn

\* C1 witness: two players tie on the maximum bid and one message is committed
C1_Witness ==
    /\ Selected /\ pc = "system"
    /\ pkgs["P1"].bid = BidHigh /\ pkgs["P2"].bid = BidHigh /\ pkgs["GM"].bid < BidHigh
    /\ Cardinality(LogIndexes("message", turn)) = 1

\* C2: the selected speaker holds the maximum bid of the round, and it is
\* the GM whenever the GM is among the maximum bidders.
C2_SpeakerHoldsMaxBid ==
    Selected =>
       /\ speaker \in AgentNames
       /\ \A a \in AgentNames : pkgs[a].bid <= pkgs[speaker].bid
       /\ (\A a \in AgentNames : pkgs[a].bid <= pkgs["GM"].bid) => speaker = "GM"

\* C2 witness: the GM ties with a player on the maximum bid and speaks
C2_Witness ==
    /\ Selected
    /\ pkgs["GM"].bid = BidHigh /\ pkgs["P1"].bid = BidHigh /\ pkgs["P2"].bid < BidHigh
    /\ speaker = "GM"

\* a memory holds the message of a message record
Remembers(a, e) ==
    \E i \in 1..Len(mem_log[a]) :
       /\ mem_log[a][i][1] = e.turn
       /\ mem_log[a][i][2] = e.speaker
       /\ mem_log[a][i][4] = e.msg

MessageRecords ==
    {full_json_log[i] : i \in {j \in 1..Len(full_json_log) :
                                  full_json_log[j].phase = "message"}}

Utters == Selected /\ pc = "system" /\ strip(pkgs[speaker].msg) # ""

\* the message of the round went out as a broadcast
Broadcast ==
    /\ Last(full_json_log).phase = "message"
    /\ Last(full_json_log).to = <<"ALL">>
    /\ ~Last(full_json_log).is_dm
    /\ public_log # <<>> /\ Last(public_log)[1] = turn

C5_RoutingFrame ==
    [][ (engine = "sdg" /\ pc = "bidding" /\ pc' = "system"
           /\ Len(full_json_log') > 0 /\ Last(full_json_log').phase = "message")
        => LET e == Last(full_json_log') IN
           IF ~e.is_dm
           THEN \A a \in MemOwners :
                   mem_log'[a] = Append(mem_log[a], <<e.turn, e.speaker, <<"ALL">>, e.msg>>)
           ELSE \A a \in MemOwners \ ({e.speaker, "GM", "SYSTEM"} \cup Range(e.to)) :
                   mem_log'[a] = mem_log[a] ]_vars

\* C5 witness: the GM's direct message to P1 is committed and P2's memory is empty
C5_Witness ==
    /\ engine = "sdg" /\ pc = "system"
    /\ Last(full_json_log).phase = "message"
    /\ Last(full_json_log).is_dm /\ Last(full_json_log).speaker = "GM"
    /\ mem_log["P1"] # <<>> /\ mem_log["P2"] = <<>>

\* the System's pass of turn t is still to come
PassPending(t) == t = turn /\ pc \in {"bidding", "system"}

\* the run ended by an exception during turn t
Aborted(t) == t = turn /\ pc = "aborted"

C7_TurnCounter ==
    [][ /\ engine = "sdg" =>
              IF pc = "loop" /\ pc' = "bidding" THEN turn' = turn + 1 ELSE turn' = turn
        /\ engine = "flex" =>
              IF pc = "step" THEN state'.turn = state.turn + 1
              ELSE state'.turn = state.turn ]_vars

\* C7 witness: the second phase step has run after a directive that
\* rewrote the turn limit
C7_Witness ==
    /\ engine = "flex" /\ pc = "gm"
    /\ state.turn = 2
    /\ state.meta.turn_limit = TurnLimit + 1

FailingAnswers == {js \in OracleAnswers : js.kind \in {"raise", "text"}}

\* C8: when an agent's oracle call raises or returns text that is no JSON,
\* the agent's decision is the default with bid 0 and empty message, the
\* decisions of the other agents stay as they are, and the round goes on
\* to the speaker selection.
C8_FailedDecisionIsDefault ==
    [][ \A a \in AgentNames : \A js \in FailingAnswers :
           DecideWith(a, js) =>
              /\ pkgs'[a].bid = 0 /\ pkgs'[a].msg = ""
              /\ \A o \in DOMAIN pkgs : o # a => pkgs'[o] = pkgs[o]
              /\ pc' = "bidding"
              /\ pending' = {} => SpeakerChoices(bids(pkgs')) # {} ]_vars

\* C8 witness: P1's call failed, P2 bid the maximum and its message is committed
C8_Witness ==
    /\ Selected /\ pc = "system"
    /\ pkgs["P1"] = DefaultResponse
    /\ pkgs["P2"].bid = BidHigh /\ speaker = "P2"
    /\ Last(full_json_log).phase = "message" /\ Last(full_json_log).speaker = "P2"

----------------------------------------------------------------------------
(* Properties of check_victory *)

\* the number of living participants of a team
LivingOf(team) ==
    Cardinality({i \in 1..Len(state.alive) : VictoryTeams[state.alive[i]] = team})

Checked == engine = "victory" /\ pc = "checked"

\* C9: the counters of a victory expression are the numbers of living
\* participants per team, a team without a living member counting as 0:
\* under the rules "Town": "Evil == 0", "Evil": "Evil >= Town" and a meta
\* without counters of these names, Town is declared when no Evil
\* participant lives and some Town participant does.
C9_EmptyTeamCountsAsZero ==
    (Checked /\ victory = SpecVictoryRules
             /\ DOMAIN state.meta \cap {"Town", "Evil"} = {}
             /\ LivingOf("Evil") = 0 /\ LivingOf("Town") > 0)
       => win = "Town"

\* the rule still holds a name after the counters are substituted
Unresolved(rule) ==
    \E i \in 1..Len(Substitute(rule, Counts(state.alive, VictoryTeams, state.meta))) :
       Substitute(rule, Counts(state.alive, VictoryTeams, state.meta))[i].k = "name"

\* C10: a victory expression that still holds an identifier or a function
\* call after the counters are substituted is a non-match: its team is not
\* declared by it, and the check does not abort.
C10_UnresolvedNeverMatches ==
    Checked =>
       /\ win # "SystemExit"
       /\ \A i \in 1..Len(victory) :
             Unresolved(victory[i][2]) => win # victory[i][1]

\* the expression of the i-th team evaluates true for the roster checked
Matches(i) ==
    LET v == Eval(Sanitize(Substitute(victory[i][2],
                                      Counts(state.alive, VictoryTeams, state.meta))))
    IN  ~IsFail(v) /\ Truth(v)

\* C11: the victory check returns the first team, in declaration order,
\* whose expression evaluates true, and no winner when no expression
\* evaluates true; an earlier team's failing expression does not keep a
\* later team from matching.
C11_FirstMatchingTeamWins ==
    Checked =>
       IF \E i \in 1..Len(victory) : Matches(i)
       THEN \E i \in 1..Len(victory) :
               /\ Matches(i) /\ win = victory[i][1]
               /\ \A j \in 1..(i - 1) : ~Matches(j)
       ELSE win = None

\* the counters of the check: living participants per team, then meta
Counters == Counts(state.alive, VictoryTeams, state.meta)

\* C24: the comparisons and the arithmetic of a victory expression have
\* their usual meaning over the integer counters; for every pair of
\* counter values the rule "Town != Evil" matches exactly when the two
\* values differ.
C24_NotEqualMatchesWhenDifferent ==
    (Checked /\ victory = Rule("Town", <<W("Town"), O("!="), W("Evil")>>)
             /\ {"Town", "Evil"} \subseteq DOMAIN Counters)
       => (win = "Town" <=> Counters["Town"] # Counters["Evil"])

\* the identifiers of the i-th rule that hold a counter name as a proper
\* part and are no counter names themselves
CompoundsOf(i) ==
    { victory[i][2][j].s : j \in { n \in 1..Len(victory[i][2]) :
          /\ victory[i][2][n].k = "name"
          /\ victory[i][2][n].s \in DOMAIN Compound
          /\ victory[i][2][n].s \notin DOMAIN Counters
          /\ Compound[victory[i][2][n].s][1] \in DOMAIN Counters } }

\* the identifiers of the i-th rule after the substitution
NamesAfter(i) ==
    { Substitute(victory[i][2], Counters)[j].s :
        j \in { n \in 1..Len(Substitute(victory[i][2], Counters)) :
                  Substitute(victory[i][2], Counters)[n].k = "name" } }

\* C25: the substitution replaces the whole-word occurrences of a counter
\* name and nothing else: no counter name is left in the expression, an
\* identifier that holds a counter name as a proper part is still there
\* after the substitution, and its rule does not match by that part.
C25_WholeWordSubstitution ==
    Checked =>
       \A i \in 1..Len(victory) :
          /\ NamesAfter(i) \cap DOMAIN Counters = {}
          /\ CompoundsOf(i) \subseteq NamesAfter(i)
          /\ (CompoundsOf(i) # {} /\ win # "SystemExit") => win # victory[i][1]

\* C25 witness: "Town0 >= 0" has been checked with five living Town
\* participants; Town0 is no counter, and Town is not declared
C25_Witness ==
    /\ Checked
    /\ victory = Rule("Town", <<W("Town0"), O(">="), N(0)>>)
    /\ "Town" \in DOMAIN Counters /\ Counters["Town"] = 5
    /\ win = None

----------------------------------------------------------------------------
(* Properties of the phase engine *)

\* the turn limit is the one of the game spec before and after the step
LimitKept ==
    /\ engine = "flex"
    /\ state.meta.turn_limit = TurnLimit /\ state'.meta.turn_limit = TurnLimit

\* C12: with the configured turn limit L left as it is, the directive step
\* returns the timeout tag exactly when L phase steps have been executed,
\* the loop then ends without a winner, and no phase step runs with a turn
\* number above L.
C12_StopsAtTurnLimit ==
    [][ LimitKept =>
          /\ pc = "gm" => /\ (phase' = "timeout_victory") <=> (state.turn >= TurnLimit)
                          /\ state.turn >= TurnLimit =>
                                pc' = "ended" /\ win' = None /\ state'.turn = TurnLimit
          /\ pc = "step" => state.turn < TurnLimit /\ state'.turn <= TurnLimit ]_vars

\* C12 witness: the loop has ended on the timeout tag after exactly L steps
C12_Witness ==
    /\ engine = "flex" /\ pc = "ended"
    /\ phase = "timeout_victory"
    /\ state.turn = TurnLimit /\ state.meta.turn_limit = TurnLimit
    /\ win = None

\* C13: whatever the directives of the GM oracle are, no phase step runs
\* with a turn number above the limit the game spec configured.
C13_NoRoundBeyondConfiguredLimit ==
    engine = "flex" => state.turn <= TurnLimit

\* C14: a directive that names a phase of the static list has that phase
\* executed next, whatever the list's order; the override holds for that
\* one transition, so after a directive that names no phase the engine
\* goes on to a phase step (the static successor of the phase executed
\* last) instead of stopping.
C14_OverrideForOneTransition ==
    [][ (engine = "flex" /\ pc = "gm" /\ phase \in Range(SpecPhases)) =>
          /\ phase' \in Range(SpecPhases) => pc' = "step"
          /\ phase' = "" => pc' = "step" ]_vars

\* the tags a directive can return that ask for a phase to be executed
RequestedTags == {d.d.next_phase : d \in DirectiveAnswers} \ {""}

\* C15: when the tag the directive step asks for has no registered handler,
\* the game aborts with an error; the loop does not end as if the game had
\* finished.
C15_UnregisteredTagIsFatal ==
    [][ (engine = "flex" /\ pc = "gm"
           /\ phase' \in RequestedTags /\ phase' \notin phase_handlers)
        => pc' = "crashed" ]_vars

\* C21: a directive that supplies no next phase leaves the choice to the
\* static phase list, so the loop never ends on such a directive: it ends
\* only with a winner or at the turn limit.
C21_StaticListWithoutDirective ==
    (engine = "flex" /\ pc = "ended") => phase # ""

\* C22: when the engine executes the ability phase, the handler registered
\* for the ability is invoked (once, with the living holders of the
\* ability), so the phase step completes and the loop goes on to the
\* victory check: the step does not leave main by an exception.
C22_AbilityPhaseInvokesHandler ==
    [][ (engine = "flex" /\ pc = "step" /\ phase = "ability") => pc' # "crashed" ]_vars

----------------------------------------------------------------------------
(* Properties of the oracle requests *)

\* the Private States a game of these players can start with: any player
\* the werewolf, with or without a further secret
PrivateStates ==
    UNION { {init_meta_priv(w), DictUpdate(init_meta_priv(w), [seer_results |-> "r"])} :
              w \in Range(names) }

\* the requests of the first round are issued
FirstRequests == engine = "sdg" /\ turn = 1 /\ pc = "bidding"

\* the request a gets in the first round of the game that starts with mpriv
TwinRequest(a, mpriv) == Request(a, init_meta_pub, mpriv, <<>>)

----------------------------------------------------------------------------
(* Properties of the delta application *)

\* the deltas the System returned, in the order of the event log
Deltas ==
    SelectSeq(full_json_log, LAMBDA e : e.phase = "system_update")

\* d with the keys of u written over it
Overwrite(d, u) ==
    [k \in DOMAIN d \cup DOMAIN u |-> IF k \in DOMAIN u THEN u[k] ELSE d[k]]

\* the state that results from d0 by the deltas ds[1..n], field f of each
RECURSIVE Replay(_, _, _, _)
Replay(d0, ds, f, n) ==
    IF n = 0 THEN d0 ELSE Overwrite(Replay(d0, ds, f, n - 1), ds[n][f].d)

\* C17: the Public and the Private State are the result of applying the
\* deltas the System returned, in their order, to the initial state: the
\* same initial state and the same deltas give the same state.
C17_StateIsReplayOfDeltas ==
    (engine = "sdg" /\ pc \in {"loop", "bidding", "system", "done"}) =>
       /\ meta_pub = Replay(init_meta_pub, Deltas, "update_pub", Len(Deltas))
       /\ \E w \in Wolves :
             meta_priv = Replay(init_meta_priv(w), Deltas, "update_priv", Len(Deltas))

\* C17 witness: two deltas, each eliminating a player, have been applied
C17_Witness ==
    /\ engine = "sdg" /\ pc = "loop" /\ turn = 2
    /\ Len(Deltas) = 2
    /\ meta_pub.alive = <<>> /\ meta_pub.dead = <<"P2", "P1">>

----------------------------------------------------------------------------
(* Properties of the tie-break *)

\* the agents that bid the maximum of b, in the order of the bids dict
TopBidders(b) == SelectSeq(agents, LAMBDA a : \A o \in DOMAIN b : b[o] <= b[a])

\* the speaker that the generator state g and the bids b determine
SeededSpeaker(g, b) ==
    IF "GM" \in Range(TopBidders(b)) THEN "GM"
    ELSE TopBidders(b)[(g % Len(TopBidders(b))) + 1]

----------------------------------------------------------------------------
(* Properties of the event log *)

\* the record was written by the game that runs, not found in the file
OfThisGame(e) == ~(e.phase = "end" /\ e.winner = "OLD")

\* C19: the event log at log_path is append-only: a record of the running
\* game that is in the log before a write is in the log, at the same
\* position, after it.
C19_LogIsAppendOnly ==
    [][ engine = "sdg" =>
          \A i \in 1..Len(log_file.v) :
             OfThisGame(log_file.v[i]) =>
                /\ i <= Len(log_file'.v)
                /\ log_file'.v[i].phase = log_file.v[i].phase ]_vars

----------------------------------------------------------------------------
(* Properties of run_experiment *)

\* the call is over: it returned or raised
Called == engine = "experiment" /\ pc \in {"returned", "raised"}

\* the script of this run has dumped a JSON object into final_info.json
WroteFinalInfo == proc.writes.op = "write" /\ proc.writes.file.st = "json"

\* every metric of the dumped object carries a means value
HasMeans == \A k \in DOMAIN proc.writes.file.v : "means" \in DOMAIN proc.writes.file.v[k]

----------------------------------------------------------------------------
(* Properties of decide_async *)

Decided == engine = "decide" /\ pc = "returned"

\* the answer is a JSON object whose only fault is a bid outside of [0, 1]
BidOutOfRange ==
    answer.kind = "json" /\ (answer.bid < BidLow \/ answer.bid > BidHigh)

\* C23 as stated: an answer whose bid lies outside of [0, 1] is accepted
\* with the bid clamped to the nearest bound, keeping its message and its
\* recipients.
C23_OutOfRangeBidIsClamped ==
    (Decided /\ BidOutOfRange) =>
       /\ response.bid = Clamp(answer.bid)
       /\ response.msg = answer.msg
       /\ response.to = answer.to

\* C23 amended: an answer whose bid lies outside of [0, 1] fails the
\* validation as a whole: the decision is the default with bid 0, empty
\* message and recipient ALL, and the answer's message and recipients are
\* dropped.
C23_OutOfRangeBidIsDefault ==
    (Decided /\ BidOutOfRange) => response = DefaultResponse

\* C23 witness: an answer with the bid 1.5, a message and one recipient
\* has been turned into the default
C23_Witness ==
    /\ Decided
    /\ answer.kind = "json" /\ answer.bid = 15
    /\ answer.msg = "hi" /\ answer.to = <<"P1">>
    /\ response.bid = 0 /\ response.msg = "" /\ response.to = <<"ALL">>


----------------------------------------------------------------------------
(* Properties of the Authority's failures *)

\* the directive step has fallen back to the directive of lines 202-207
DirectiveFailed ==
    /\ engine = "flex" /\ pc = "gm"
    /\ state'.messages # <<>>
    /\ Last(state'.messages) = Msg("GM", InvalidDirective.public_msg)

\* C26: a failed or malformed answer of the Authority oracle never ends or
\* aborts the game: the System step of a round never leaves the loop by an
\* exception, and after a directive that failed (below the turn limit) the
\* phase engine goes on instead of ending.
C26_AuthorityFailureNeverHalts ==
    [][ /\ (engine = "sdg" /\ pc = "system") => pc' # "aborted"
        /\ (DirectiveFailed /\ phase' # "timeout_victory") => pc' # "ended" ]_vars


----------------------------------------------------------------------------
(* Properties of the recipients *)

\* the decision of agent a names a recipient that is no participant
NamesStranger(a) ==
    \E i \in 1..Len(pkgs[a].to) : pkgs[a].to[i] \notin AgentNames \cup {"ALL"}

\* C27: when the decision of the selected speaker names a recipient that
\* is no participant, the game is not aborted: the round goes on to the
\* System's state update.
C27_UnknownRecipientDoesNotAbort ==
    [][ (engine = "sdg" /\ pc = "bidding" /\ pending = {} /\ NamesStranger(speaker'))
           => pc' = "system" ]_vars


----------------------------------------------------------------------------
(* Properties of the engine commands *)

\* the command names no operation or no collection, an operation the
\* engine does not have, a collection meta does not hold, or one that is
\* no list
InvalidCmd(cmd, meta) ==
    /\ DOMAIN cmd # {}
    /\ \/ "op" \notin DOMAIN cmd \/ "deck" \notin DOMAIN cmd
       \/ cmd.op \notin {"draw", "shuffle"}
       \/ cmd.deck \notin DOMAIN meta
       \/ cmd.deck \notin ListKeys

\* meta after state["meta"].update(meta_update) of lines 230-232
MetaUpdated(meta, mu) == IF DOMAIN mu # {} THEN DictUpdate(meta, mu) ELSE meta

\* C28: a directive with an invalid engine command changes Public State
\* only by what the directive says besides the command: its public message
\* is appended, its meta update is applied, and roster, turn and every
\* other meta entry stay as they are.
C28_InvalidCommandChangesNothing ==
    [][ \A ans \in DirectiveAnswers :
           (ans.kind = "ok" /\ InvalidCmd(ans.d.engine_cmd, state.meta)
              /\ GmDirectiveWith(ans))
           => /\ state'.meta = MetaUpdated(state.meta, ans.d.meta_update)
              /\ state'.messages = Append(state.messages, Msg("GM", ans.d.public_msg))
              /\ state'.alive = state.alive /\ state'.turn = state.turn ]_vars


----------------------------------------------------------------------------
(* Properties of the state's writers *)

\* C29: in the bid / speak / update loop meta_pub and meta_priv change only
\* in the System step that applies the delta (and when the game is set
\* up): starting a round, collecting the decisions, selecting the speaker
\* and routing its message leave both, and the turn number, as they are,
\* so every decision request of a round carries the Public State of that
\* round, and the GM's the Private State.
C29_StateChangesOnlyInCommit ==
    [][ engine = "sdg" =>
          /\ pc \notin {"start", "system"} =>
                meta_pub' = meta_pub /\ meta_priv' = meta_priv
          /\ pc \in {"bidding", "system"} =>
                /\ turn' = turn
                /\ \A a \in AgentNames : requests[a].meta_pub = meta_pub
                /\ requests["GM"].meta_priv = meta_priv ]_vars

\* C29 witness: every decision of the second round is in, made on the
\* Public State the first round's delta left, and the speaker is selected
C29_Witness ==
    /\ engine = "sdg" /\ pc = "system" /\ turn = 2
    /\ meta_pub.dead = <<"P2">>
    /\ \A a \in AgentNames : requests[a].meta_pub.dead = <<"P2">>
    /\ speaker = "GM"
    /\ Len(mem_log["P1"]) = 2


----------------------------------------------------------------------------
(* Properties of the decision calls *)

\* C30: a decision call that never returns does not block the round: the
\* call is given up after a timeout and the round goes on from the bidding
\* to the speaker selection with the decisions of the other agents.
C30_HungCallDoesNotBlockRound ==
    (engine = "sdg" /\ pc = "bidding") ~> (engine = "sdg" /\ pc # "bidding")


----------------------------------------------------------------------------
(* Properties of the empty speaking turn *)

\* message texts that are empty or whitespace only
Blank == {"", " "}

\* the last record is a System answer whose delta is no mapping, the
\* failure of lines 513-549 that ends a round of any kind
MalformedDelta ==
    LET r == Last(full_json_log)
    IN  r.phase = "system_update" /\ (r.update_pub.t # "map" \/ r.update_priv.t # "map")

\* C31: when the message of the selected speaker is empty or whitespace
\* only, the round is a speaking turn without effect and no error: no
\* memory and no message log changes, no message record is written, and
\* the round goes on to the System, which is invoked once for the turn;
\* the loop is reached again unless the System's own delta is no mapping.
C31_EmptyMessageIsNoOp ==
    [][ engine = "sdg" =>
          /\ (pc = "bidding" /\ pending = {} /\ pkgs[speaker'].msg \in Blank) =>
                /\ mem_log' = mem_log
                /\ public_log' = public_log /\ dm_log' = dm_log
                /\ \A i \in 1..Len(full_json_log') : full_json_log'[i].phase # "message"
                                                      \/ full_json_log'[i].turn # turn
                /\ pc' = "system"
          /\ (pc = "system" /\ LogIndexes("message", turn) = {}) =>
                /\ Cardinality({i \in 1..Len(full_json_log') :
                                  /\ full_json_log'[i].phase = "system_update"
                                  /\ full_json_log'[i].turn = turn}) = 1
                /\ turn' = turn
                /\ pc' = "loop" \/ (pc' = "aborted" /\ MalformedDelta') ]_vars

\* C31 witness: the second round has begun after a first round whose
\* speaker had nothing to say: the System was invoked, no memory holds an
\* entry and no message was recorded
C31_Witness ==
    /\ engine = "sdg" /\ pc = "bidding" /\ turn = 2
    /\ \A a \in MemOwners : mem_log[a] = <<>>
    /\ LogIndexes("message", 1) = {}
    /\ Cardinality(LogIndexes("selection", 1)) = 1
    /\ Cardinality(LogIndexes("system_update", 1)) = 1


----------------------------------------------------------------------------
(* A game that has run for many rounds.  Nothing bounds the number of      *)
(* rounds of main_async, so after L rounds in which the GameMaster spoke   *)
(* to ALL and the System had no update the program is in the state         *)
(* LongGame(L), about to collect the bids of round L + 1.                  *)

\* the numbers of rounds played: around the window of decide_async
PlayedRounds == {HistoryWindow - 2, HistoryWindow - 1, HistoryWindow}

\* lines 439-556: the records one such round appends to full_json_log
RoundRecords(t) ==
    BidEntries(t) \o
    <<[phase |-> "selection", turn |-> t, selected_speaker |-> "GM"],
      [phase |-> "message", turn |-> t, speaker |-> "GM", to |-> <<"ALL">>,
       is_dm |-> FALSE, msg |-> "hi"],
      [phase |-> "system_update", turn |-> t, update_pub |-> Map(EmptyDict),
       update_priv |-> Map(EmptyDict), winner |-> None]>>

RECURSIVE RecordsOf(_)
RecordsOf(l) == IF l = 0 THEN <<>> ELSE RecordsOf(l - 1) \o RoundRecords(l)

\* lines 483-489: what each memory holds after l broadcasts
Broadcasts(l) == [t \in 1..l |-> <<t, "GM", <<"ALL">>, "hi">>]

LongGame(l) ==
    /\ turn = l + 1
    /\ winner = None
    /\ meta_pub = init_meta_pub
    /\ \E wolf \in Wolves : meta_priv = init_meta_priv(wolf)
    /\ mem_log = [a \in MemOwners |-> Broadcasts(l)]
    /\ pending = AgentNames
    /\ pkgs = <<>>
    /\ requests = [a \in MemOwners |-> Request(a, meta_pub, meta_priv, mem_log[a])]
    /\ speaker = "GM"
    /\ public_log = [t \in 1..l |-> <<t, "GM", "hi">>]
    /\ dm_log = <<>>
    /\ full_json_log = RecordsOf(l)
    /\ log_file = [st |-> "list", v |-> full_json_log]

InitLongGame ==
    /\ engine = "sdg" /\ pc = "bidding"
    /\ \E l \in PlayedRounds : LongGame(l)
    /\ rng \in Seeds
    /\ FlexIdle /\ ExpIdle /\ DecIdle /\ PerfIdle

NextLongGame ==
    \/ \E a \in AgentNames : Decide(a)
    \/ SelectAndRoute
    \/ SystemUpdate
    \/ GameEnd

SpecLongGame == InitLongGame /\ [][NextLongGame]_vars

----------------------------------------------------------------------------
(* Properties of the memories *)

\* C32: no memory ever holds more than HistoryWindow entries.
C32_MemoryWithinCapacity ==
    engine = "sdg" => \A a \in MemOwners : Len(mem_log[a]) <= HistoryWindow


----------------------------------------------------------------------------
(* The round loop when every call returns: whatever step main_async can    *)
(* take is taken.                                                          *)

SpecRounds == InitSdg /\ [][NextSdg]_vars /\ WF_vars(NextSdg)

\* line 433: the test of the while loop is true, the next round is due
LoopContinues == engine = "sdg" /\ pc = "loop" /\ winner = None

----------------------------------------------------------------------------
(* Properties of the end of the game *)

\* the System's record of the round being played
DeclaredIn(log, t) ==
    {log[i].winner : i \in {j \in 1..Len(log) : log[j].phase = "system_update"
                                                  /\ log[j].turn = t}}

\* C34: the game ends in a round exactly when a team is declared the
\* winner in that round.  In the bid/speak loop the System's pass is
\* completed with its delta applied, the end record names the team the
\* System declared in the last round, no request is issued after it, and a
\* pass that declares no team leads back to the loop.  In the phase engine
\* a round whose victory check names no team leads back to the GameMaster,
\* whose directive starts the next phase, and the loop is left only with a
\* winner.
C34_EndsExactlyWhenWinnerDeclared ==
    [][ /\ (engine = "sdg" /\ pc = "system") =>
              /\ pc' = "loop"
              /\ DeclaredIn(full_json_log', turn) = {winner'}
        /\ (engine = "sdg" /\ pc = "loop" /\ winner = None) => pc' = "bidding"
        /\ (engine = "sdg" /\ pc = "loop" /\ winner # None) =>
              /\ pc' = "done"
              /\ Last(full_json_log') = [phase |-> "end", winner |-> winner]
              /\ DeclaredIn(full_json_log, turn) = {winner}
              /\ requests' = requests
        /\ (engine = "flex" /\ pc = "step") =>
              /\ win' = None => pc' = "gm"
              /\ win' # None => pc' = "won"
        /\ (engine = "flex" /\ pc = "gm") => pc' = "step" ]_vars


----------------------------------------------------------------------------
(* Properties of the routing of one message *)

\* C35: routing one message that is committed (the round goes on to the
\* System) appends at most one entry to each memory, also when the speaker
\* is among the recipients it names.
C35_AtMostOneEntryPerMemory ==
    [][ (engine = "sdg" /\ pc = "bidding" /\ pc' = "system") =>
          \A a \in MemOwners : Len(mem_log'[a]) <= Len(mem_log[a]) + 1 ]_vars


----------------------------------------------------------------------------
(* The engine commands of _ph_gm on the decks a JSON spec can put in meta  *)
(* and with the counts a directive can carry.                              *)

MaxDeck == 3

Cards == {"c1", "c2", "c3"}

\* spec["meta"]["deck"]: the lists of at most MaxDeck cards
Decks == UNION { [1..l -> Cards] : l \in 0..MaxDeck }

\* cmd.get("n", 1): n negative, zero, within the deck, beyond it, null
DrawCounts == {IntN(-1), IntN(0), IntN(1), IntN(MaxDeck + 1), NullN}

\* the directives that carry a draw or a shuffle of the deck
DeckDirectives ==
    { Directive("vote", EmptyDict, [op |-> "draw", deck |-> "deck"]),
      Directive("vote", EmptyDict, [op |-> "shuffle", deck |-> "deck"]) }
    \cup { Directive("vote", EmptyDict, [op |-> "draw", deck |-> "deck", n |-> c]) :
             c \in DrawCounts }

\* lines 373-378: the state main builds from the spec
InitDeck ==
    /\ engine = "flex" /\ pc = "gm"
    /\ victory = SpecVictoryRules
    /\ \E d \in Decks :
          state = [messages |-> <<Msg("GM", "Game begins")>>, turn |-> 0,
                   alive |-> players, meta |-> [turn_limit |-> TurnLimit, deck |-> d]]
    /\ phase = None
    /\ win = None
    /\ SdgStart /\ log_file = [st |-> "absent", v |-> <<>>] /\ rng = 0
    /\ ExpIdle /\ DecIdle /\ PerfIdle

\* line 382: the first directive of the game
NextDeck == \E ans \in DeckDirectives : GmDirectiveWith(ans)

SpecDeck == InitDeck /\ [][NextDeck]_vars

----------------------------------------------------------------------------
(* Properties of draw and shuffle *)

\* how often each item occurs in a list
Occurrences(s) == [x \in Range(s) |-> Cardinality({i \in 1..Len(s) : s[i] = x})]

\* the directive step has run a draw: the cards are stored under gm_last_draw
Drew == /\ engine = "flex" /\ pc = "gm"
        /\ "gm_last_draw" \notin DOMAIN state.meta
        /\ "gm_last_draw" \in DOMAIN state'.meta

\* C36: for every deck and every count a command can carry, the cards
\* drawn followed by the cards left in the deck are the deck as it was, and
\* a directive without a draw (a shuffle) leaves the deck with the same
\* items as often as before.
C36_DrawSplitsTheDeck ==
    [][ /\ Drew => state'.meta.gm_last_draw \o state'.meta.deck = state.meta.deck
        /\ (engine = "flex" /\ pc = "gm" /\ ~Drew) =>
              Occurrences(state'.meta.deck) = Occurrences(state.meta.deck) ]_vars


----------------------------------------------------------------------------
(* blood_clocktower_plugin.py: the ability handlers, reached through       *)
(* _ph_ability with the phase entry of spec["phases"] as ph_cfg, and the   *)
(* vote, each followed by the victory check of main.                       *)

MaxPhases == 3

\* four players: the Imp, the Poisoner, the Slayer and a Villager
roster == <<"P1", "P2", "P3", "P4">>

\* lines 362-371 with the roles of SPEC_JSON, lines 80-87
roster_priv ==
    [p \in Range(roster) |->
        CASE p = "P1" -> [role |-> "Imp", team |-> "Evil", abilities |-> {"demon_kill"}]
          [] p = "P2" -> [role |-> "Poisoner", team |-> "Evil", abilities |-> {"poison"}]
          [] p = "P3" -> [role |-> "Slayer", team |-> "Town", abilities |-> {"slayer_shot"}]
          [] OTHER    -> [role |-> "Villager", team |-> "Town", abilities |-> {}]]

roster_team == [p \in Range(roster) |-> roster_priv[p].team]

\* what the oracle of a handler can name: a player, "skip", a stranger
Targets == Range(roster) \cup {"skip", "Px"}

\* list.remove(x) for an x that is in the list: the first x is taken out
RECURSIVE ListRemove(_, _)
ListRemove(s, x) ==
    IF s = <<>> THEN <<>>
    ELSE IF Head(s) = x THEN Tail(s)
    ELSE <<Head(s)>> \o ListRemove(Tail(s), x)

\* abil_demon_kill, lines 125-140, the oracle naming tgt
abil_demon_kill(st, users, tgt) ==
    IF users = <<>> THEN [st |-> st, err |-> ""]
    ELSE IF tgt \in Range(st.alive) /\ tgt # users[1]
    THEN [st |-> [st EXCEPT !.alive = ListRemove(@, tgt),
                            !.messages = Append(@, [by |-> "GM", text |-> "killed",
                                                    who |-> tgt]),
                            !.meta = DictUpdate(@, [last_killed_night |-> tgt])],
          err |-> ""]
    ELSE [st |-> st, err |-> ""]

\* abil_slayer, lines 185-203, the oracle naming tgt.  list.remove of a
\* name that is not in the list raises ValueError.
abil_slayer(st, users, tgt) ==
    IF users = <<>> \/ Get(st.meta, "slayer_used", FALSE) THEN [st |-> st, err |-> ""]
    ELSE IF tgt = "skip" THEN [st |-> st, err |-> ""]
    ELSE LET used == [st EXCEPT !.meta = DictUpdate(@, [slayer_used |-> TRUE])] IN
         IF tgt \in DOMAIN roster_priv /\ roster_priv[tgt].role = "Imp"
         THEN IF tgt \in Range(st.alive)
              THEN [st |-> [used EXCEPT !.alive = ListRemove(@, tgt),
                                        !.messages = Append(@, [by |-> "GM",
                                                                text |-> "slain",
                                                                who |-> tgt])],
                    err |-> ""]
              ELSE [st |-> used, err |-> "ValueError"]
         ELSE [st |-> [used EXCEPT !.messages = Append(@, [by |-> "GM",
                                                           text |-> "missed",
                                                           who |-> tgt])],
               err |-> ""]

\* the abilities with a handler that removes from the roster
Abilities == {"demon_kill", "slayer_shot"}

\* _ph_ability, lines 303-308, with ph_cfg = {"type": "ability", "ability": abil}
ph_ability_cfg(st, abil, tgt) ==
    LET users == SelectSeq(st.alive, LAMBDA p : abil \in roster_priv[p].abilities)
    IN  IF abil = "demon_kill" THEN abil_demon_kill(st, users, tgt)
        ELSE abil_slayer(st, users, tgt)

\* lines 373-378: the state main builds
InitHandlers ==
    /\ engine = "handlers" /\ pc = "phase"
    /\ victory = SpecVictoryRules
    /\ state = [messages |-> <<Msg("GM", "Game begins")>>, turn |-> 0,
                alive |-> roster, meta |-> [slayer_used |-> FALSE]]
    /\ phase = None
    /\ win = None
    /\ SdgStart /\ log_file = [st |-> "absent", v |-> <<>>] /\ rng = 0
    /\ ExpIdle /\ DecIdle /\ PerfIdle

\* lines 390-396: the victory check after a phase that returned
Judge(st) ==
    LET w == check_victory(st.alive, roster_team, st.meta, victory) IN
    /\ win' = w
    /\ state' = IF w \notin {None, "SystemExit"}
                THEN [st EXCEPT !.messages =
                         Append(@, [by |-> "GM", text |-> "win", who |-> w])]
                ELSE st
    /\ pc' = CASE w = None         -> "phase"
               [] w = "SystemExit" -> "crashed"
               [] OTHER            -> "won"

\* lines 386-396 for the vote
VotePhase ==
    /\ engine = "handlers" /\ pc = "phase"
    /\ state.turn < MaxPhases
    /\ phase' = "vote"
    /\ \E r \in ph_vote([state EXCEPT !.turn = @ + 1]) :
          IF r.ok THEN Judge(r.st)
          ELSE state' = r.st /\ pc' = "crashed" /\ UNCHANGED win
    /\ UNCHANGED <<sdgVars, expVars, decVars, perfVars, engine, victory>>

\* lines 386-396 for an ability phase
AbilityPhase ==
    /\ engine = "handlers" /\ pc = "phase"
    /\ state.turn < MaxPhases
    /\ \E abil \in Abilities, tgt \in Targets :
          LET r == ph_ability_cfg([state EXCEPT !.turn = @ + 1], abil, tgt) IN
          /\ phase' = abil
          /\ IF r.err = "" THEN Judge(r.st)
             ELSE state' = r.st /\ pc' = r.err /\ UNCHANGED win
    /\ UNCHANGED <<sdgVars, expVars, decVars, perfVars, engine, victory>>

NextHandlers == VotePhase \/ AbilityPhase

SpecHandlers == InitHandlers /\ [][NextHandlers]_vars

----------------------------------------------------------------------------
(* Properties of the living roster *)

\* s is t with at most one item taken out
ShrunkByAtMostOne(s, t) ==
    s = t \/ \E i \in 1..Len(t) : s = SubSeq(t, 1, i - 1) \o SubSeq(t, i + 1, Len(t))

\* C37: the vote and every ability handler leave the living roster as it
\* was or with one name taken out, and never fail in the removal: a name
\* is removed only when it is in the roster.
C37_RosterOnlyShrinks ==
    [][ (engine = "handlers" /\ pc = "phase") =>
          /\ ShrunkByAtMostOne(state'.alive, state.alive)
          /\ pc' # "ValueError" ]_vars


----------------------------------------------------------------------------
(* perform_experiments.py: perform_experiments                             *)
(*                                                                         *)
(* The coder answers with ALL_COMPLETED or with an edit; the experiment    *)
(* and the plot script run as subprocesses that exit or time out.          *)

MAX_ITERS == 4
MAX_RUNS == 5

\* the default of run_experiment's timeout, line 33
DefaultTimeout == 7200

\* the folder perform_experiments is given: no run directory yet
PerformFolders ==
    { [docker |-> d, experiment_py |-> e, copies |-> {},
       run |-> [n \in 1..MAX_RUNS |-> NoDir]] : d \in BOOLEAN, e \in BOOLEAN }

\* what coder.run returns
CoderAnswers == {"ALL_COMPLETED", "edited"}

\* what the experiment process does in these runs
PerformProcs ==
    { [ends |-> "exit", returncode |-> 0, stderr |-> 0,
       writes |-> [op |-> "write", file |-> JsonFile([metric |-> [means |-> 5]])]],
      [ends |-> "exit", returncode |-> 0, stderr |-> 0, writes |-> NoWrite],
      [ends |-> "exit", returncode |-> 1, stderr |-> 1, writes |-> NoWrite],
      [ends |-> "exit", returncode |-> 2, stderr |-> 1,
       writes |-> [op |-> "write", file |-> JsonFile([metric |-> [means |-> 5]])]],
      [ends |-> "timeout", returncode |-> 0, stderr |-> 0,
       writes |-> [op |-> "mkdir", file |-> NoFile]] }

\* lines 203-207 and 233-240: the prompts perform_experiments writes itself
CoderPrompt == [NoPrompt EXCEPT !.says = "coder_prompt"]
PlotPrompt == [NoPrompt EXCEPT !.says = "Please modify plot.py"]

\* what the plot process does: its exit code, or "timeout"
PlotProcs == {0, 1, 2, -1}

\* run_plotting, lines 135-188: -1 stands for TimeoutExpired
run_plotting(use_docker, docker, p) ==
    IF use_docker /\ ~docker THEN Raise("EnvironmentError")
    ELSE IF p = -1
    THEN Return(1, [NoPrompt EXCEPT !.says = "Plotting timed out after",
                                    !.timeout = 600])
    ELSE IF p # 0
    THEN Return(p, [NoPrompt EXCEPT !.says = "Plotting failed with the following error"])
    ELSE Return(0, NoPrompt)

\* a plotting loop that allows one attempt more
plotting_ends_late(return_code, iter) == return_code = 0 \/ iter > MAX_ITERS

\* line 248: the test that ends the plotting loop
plotting_ends(return_code, iter) == return_code = 0 \/ iter >= MAX_ITERS

\* lines 192-207: the variables before the first pass of the loop
InitPerform ==
    /\ engine = "perform" /\ pc = "experiments"
    /\ run = 1
    /\ current_iter = 0
    /\ next_prompt = CoderPrompt
    /\ attempts = [n \in 1..MAX_RUNS |-> 0]
    /\ result = None
    /\ \E u \in BOOLEAN : call = [run_num |-> 0, timeout |-> 0, use_docker |-> u]
    /\ fs \in PerformFolders
    /\ proc = NoProc
    /\ ret = NoRet
    /\ SdgStart /\ log_file = [st |-> "absent", v |-> <<>>] /\ rng = 0
    /\ FlexIdle /\ DecIdle

\* lines 208-226: one pass of the experiment loop
ExperimentIteration ==
    /\ engine = "perform" /\ pc = "experiments"
    /\ run < MAX_RUNS + 1
    /\ current_iter < MAX_ITERS
    /\ \E coder_out \in CoderAnswers :
          IF coder_out = "ALL_COMPLETED"
          THEN /\ pc' = "completed"
               /\ UNCHANGED <<expVars, perfVars>>
          ELSE \E p \in (IF Started THEN PerformProcs ELSE {NoProc}) :
                 LET a == [run_num |-> run, timeout |-> DefaultTimeout,
                           use_docker |-> call.use_docker]
                     r == run_experiment(a, fs, p)
                 IN  /\ call' = a
                     /\ proc' = p
                     /\ ret' = r.ret
                     /\ fs' = r.fs
                     /\ attempts' = [attempts EXCEPT ![run] = @ + 1]
                     /\ IF r.ret.exc # None
                        THEN /\ pc' = "raised"
                             /\ UNCHANGED <<run, current_iter, next_prompt>>
                        ELSE /\ pc' = "experiments"
                             /\ next_prompt' = r.ret.prompt
                             /\ run' = IF r.ret.code = 0 THEN run + 1 ELSE run
                             /\ current_iter' = (IF r.ret.code = 0 THEN 0
                                                 ELSE current_iter) + 1
                     /\ UNCHANGED result
    /\ UNCHANGED <<sdgVars, flexVars, decVars, engine>>

\* lines 208-211 and 227-240: the loop is left; give up, or go on to plot
AfterExperiments ==
    /\ engine = "perform"
    /\ \/ pc = "completed"
       \/ pc = "experiments" /\ (run >= MAX_RUNS + 1 \/ current_iter >= MAX_ITERS)
    /\ IF current_iter >= MAX_ITERS
       THEN /\ result' = "False"
            /\ pc' = "returned"
            /\ UNCHANGED <<current_iter, next_prompt>>
       ELSE /\ current_iter' = 0
            /\ next_prompt' = PlotPrompt
            /\ pc' = "plotting"
            /\ UNCHANGED result
    /\ UNCHANGED <<sdgVars, flexVars, expVars, decVars, engine, run, attempts>>

\* lines 241-259: one pass of the plotting loop; when it is the last one,
\* the notes prompt and "return True"
PlotIteration ==
    /\ engine = "perform" /\ pc = "plotting"
    /\ \E p \in PlotProcs :
          LET r == run_plotting(call.use_docker, fs.docker, p) IN
          IF r.exc # None
          THEN /\ pc' = "raised"
               /\ UNCHANGED <<current_iter, next_prompt, result>>
          ELSE /\ next_prompt' = r.prompt
               /\ current_iter' = current_iter + 1
               /\ IF plotting_ends(r.code, current_iter')
                  THEN pc' = "returned" /\ result' = "True"
                  ELSE pc' = "plotting" /\ UNCHANGED result
    /\ UNCHANGED <<sdgVars, flexVars, expVars, decVars, engine, run, attempts>>

NextPerform == ExperimentIteration \/ AfterExperiments \/ PlotIteration

SpecPerform == InitPerform /\ [][NextPerform]_vars

\* every call returns, and the interpreter runs the next statement
SpecPerformFair == SpecPerform /\ WF_vars(NextPerform)

----------------------------------------------------------------------------
(* Properties of the experiment loop *)

\* the step is a call of run_experiment whose process failed
FailedRun ==
    /\ engine = "perform" /\ attempts' # attempts
    /\ proc'.ends = "timeout" \/ (proc'.ends = "exit" /\ proc'.returncode # 0)

\* C38: when the process of run N exits with a non-zero code or runs
\* into the timeout, run_experiment returns a non-zero code, 1 for the
\* timeout, and a prompt that describes the failure; no directory run_N
\* is left, and the caller keeps the run number.
C38_FailedRunIsCleanedAndRepeated ==
    [][ FailedRun =>
          /\ ret'.exc = None /\ ret'.code # 0
          /\ proc'.ends = "timeout" =>
                ret'.code = 1 /\ ret'.prompt = TimedOut(DefaultTimeout)
          /\ proc'.ends = "exit" =>
                ret'.code = proc'.returncode /\ ret'.prompt = Failed(proc'.stderr)
          /\ next_prompt' = ret'.prompt
          /\ fs'.run[run] = NoDir
          /\ run' = run ]_vars

\* C38 witness: run 2 has timed out after its process had made run_2; the
\* directory is gone and the run number is still 2
C38_Witness ==
    /\ engine = "perform" /\ pc = "experiments"
    /\ run = 2 /\ call.run_num = 2
    /\ proc.ends = "timeout" /\ proc.writes.op = "mkdir"
    /\ ret.code = 1
    /\ fs.run[2] = NoDir /\ fs.run[1].st = "dir"


\* C39: perform_experiments returns False only when the run number it
\* stopped at has had MAX_ITERS failed attempts, the first run number and
\* the later ones alike.
C39_GivesUpAfterMaxItersAttempts ==
    (engine = "perform" /\ result = "False") => attempts[run] = MAX_ITERS

----------------------------------------------------------------------------
(* Properties of the termination of perform_experiments *)

\* C40: perform_experiments terminates when every call returns: it
\* returns or an exception leaves it.  At most MAX_RUNS runs succeed; the
\* coder's ALL_COMPLETED ends the experiment loop without another
\* experiment, and none is run after the loop; the plotting loop makes at
\* most MAX_ITERS attempts and the function then returns True.
C40_PerformExperimentsTerminates ==
    /\ <>(pc \in {"returned", "raised"})
    /\ [](run <= MAX_RUNS + 1)
    /\ []((pc = "plotting" \/ result = "True") => current_iter <= MAX_ITERS)
    /\ [][ /\ pc' = "completed" => (attempts' = attempts /\ fs' = fs)
           /\ pc # "experiments" => (attempts' = attempts /\ run' = run)
           /\ pc = "plotting" => pc' \in {"plotting", "returned", "raised"}
           /\ (pc = "plotting" /\ pc' = "returned") => result' = "True" ]_vars

\* C40 witness: all MAX_RUNS runs have succeeded and the function has
\* returned True after MAX_ITERS plotting attempts
C40_Witness ==
    /\ engine = "perform" /\ pc = "returned" /\ result = "True"
    /\ run = MAX_RUNS + 1
    /\ current_iter = MAX_ITERS


====
